---- MODULE Spec2Model ----
(***************************************************************************)
(* Chinese-Blackjack Monte-Carlo simulator (blackjack.py): the Session /   *)
(* Game round state machine, the Player and Dealer actors with the         *)
(* settlement of Dealer.action, the reference strategies and the           *)
(* ChineseBlackjackRuleset.                                                *)
(***************************************************************************)
EXTENDS Integers, Sequences, FiniteSets, TLC

VARIABLES session, player, dealer, game, random, pc

vars == <<session, player, dealer, game, random, pc>>

(***************************************************************************)
(* Bounds of the model: the inputs of a session.                           *)
(***************************************************************************)
MaxGames == 2
MaxPlayers == 2
InitialBankroll == 3
DealerBankroll == 4
FlatBet == 2
RandLo == 1
RandHi == 3
\* A session runs from the state random.seed(s) leaves the random source in,
\* for a seed s of 0..MaxSeed.
MaxSeed == 65

(***************************************************************************)
(* Python values                                                           *)
(***************************************************************************)
None == "None"
True == "True"
False == "False"

\* Python's `not x` on a value that is True, False or None: `not None` is True.
PyNot(x) == IF x = True THEN False ELSE True

Min(a, b) == IF a <= b THEN a ELSE b

Range(s) == {s[k] : k \in DOMAIN s}

Last(s) == s[Len(s)]

(***************************************************************************)
(* Card, Deck, Hand                                                        *)
(***************************************************************************)
\* Card.Value and Card.Suit, in the order the Enums declare their members.
Value == <<"2", "3", "4", "5", "6", "7", "8", "9", "10", "J", "Q", "K", "A">>
Suit == <<"Diamonds", "Clubs", "Hearts", "Spades">>

Card(value, suit) == [value |-> value, suit |-> suit]

\* Deck.__init__: deque(starmap(Card, product(Card.Value, Card.Suit))).
Deck == [k \in 1..(Len(Value) * Len(Suit)) |->
            Card(Value[((k - 1) \div Len(Suit)) + 1], Suit[((k - 1) % Len(Suit)) + 1])]

(***************************************************************************)
(* The random source (module random).  Its state when the session starts   *)
(* is an input of the session; the model starts a session from the state   *)
(* random.seed(s) leaves.  random.shuffle(x) swaps x[i] with               *)
(* x[randbelow(i + 1)] for i = len(x) - 1 down to 1, so the permutation it *)
(* applies depends on the state of the generator and on len(x), not on     *)
(* what x holds, and a session that seats flat bets only draws on the      *)
(* generator for nothing else: the k-th deck of a session is a function of *)
(* the seed and of k.  ShuffleOutcomes records, for every seed s from 0,   *)
(* the permutations that the first three calls of random.shuffle on 52     *)
(* elements apply after random.seed(s): entry j of a permutation is the    *)
(* place, before the shuffle, of the element that is j-th after it.        *)
(***************************************************************************)
ShuffleOutcomes ==
  <<
    \* random.seed(0)
    << <<29, 13, 46, 42, 39, 8, 6, 37, 2, 50, 34, 1, 5, 36, 21, 15, 52, 30, 35, 45, 40, 12,
         43, 18, 16, 11, 22, 28, 51, 24, 4, 44, 10, 48, 7, 41, 19, 9, 47, 14, 38, 23, 31, 20,
         26, 32, 33, 17, 3, 27, 49, 25>>,
       <<14, 24, 28, 25, 9, 40, 12, 2, 17, 49, 45, 1, 52, 4, 39, 23, 38, 11, 48, 31, 3, 50,
         44, 34, 42, 43, 26, 36, 18, 30, 27, 22, 8, 19, 20, 7, 32, 33, 51, 41, 6, 29, 35, 10,
         16, 15, 37, 13, 5, 46, 21, 47>>,
       <<17, 39, 5, 31, 30, 41, 10, 15, 36, 25, 22, 20, 3, 13, 50, 2, 43, 40, 51, 12, 49, 4,
         9, 24, 1, 33, 7, 28, 11, 52, 19, 37, 8, 21, 6, 23, 32, 29, 48, 42, 27, 38, 14, 16,
         47, 18, 34, 46, 26, 44, 35, 45>> >>,
    \* random.seed(1)
    << <<50, 10, 38, 23, 3, 39, 20, 12, 36, 6, 30, 52, 44, 16, 24, 47, 48, 22, 41, 40, 13, 51,
         33, 21, 26, 27, 35, 11, 34, 4, 19, 15, 18, 45, 1, 28, 43, 2, 46, 7, 14, 25, 42, 31,
         29, 32, 8, 17, 5, 49, 37, 9>>,
       <<40, 24, 10, 9, 11, 2, 21, 7, 5, 37, 34, 1, 39, 48, 27, 42, 51, 29, 4, 17, 15, 35, 44,
         30, 25, 23, 18, 52, 6, 50, 14, 36, 16, 31, 3, 26, 43, 32, 38, 49, 20, 13, 45, 28, 33,
         46, 22, 8, 19, 47, 41, 12>>,
       <<2, 21, 6, 8, 5, 22, 27, 24, 46, 3, 49, 38, 13, 20, 10, 50, 11, 29, 32, 40, 45, 41,
         44, 16, 52, 17, 7, 43, 19, 12, 42, 31, 4, 28, 14, 34, 9, 48, 25, 1, 39, 51, 18, 30,
         47, 37, 23, 33, 26, 15, 36, 35>> >>,
    \* random.seed(2)
    << <<16, 30, 10, 22, 5, 7, 52, 27, 23, 25, 9, 35, 37, 19, 41, 31, 46, 8, 21, 32, 50, 45,
         47, 13, 42, 15, 12, 1, 40, 2, 34, 18, 36, 29, 49, 33, 26, 28, 48, 38, 3, 44, 14, 39,
         17, 20, 43, 11, 24, 51, 6, 4>>,
       <<15, 3, 13, 7, 51, 1, 28, 21, 2, 48, 52, 38, 4, 12, 5, 14, 19, 25, 41, 17, 31, 10, 43,
         9, 20, 6, 44, 27, 50, 8, 22, 40, 35, 37, 36, 47, 23, 39, 33, 45, 18, 32, 16, 34, 42,
         30, 46, 26, 49, 11, 29, 24>>,
       <<11, 35, 27, 48, 50, 45, 39, 25, 23, 20, 10, 21, 43, 19, 30, 32, 41, 13, 26, 17, 22,
         33, 5, 46, 36, 29, 37, 47, 1, 40, 31, 8, 6, 2, 49, 12, 51, 24, 42, 3, 28, 4, 14, 16,
         52, 9, 34, 7, 44, 15, 38, 18>> >>,
    \* random.seed(3)
    << <<14, 29, 4, 20, 30, 27, 52, 23, 37, 11, 33, 7, 12, 18, 34, 49, 25, 32, 2, 19, 6, 3,
         22, 45, 48, 44, 42, 28, 43, 21, 8, 10, 26, 50, 40, 13, 15, 36, 17, 46, 1, 47, 5, 51,
         41, 31, 39, 24, 9, 35, 38, 16>>,
       <<6, 45, 48, 31, 8, 24, 42, 13, 36, 34, 29, 5, 1, 52, 39, 14, 26, 12, 51, 50, 16, 3, 4,
         10, 9, 19, 40, 30, 32, 46, 43, 7, 21, 11, 18, 2, 22, 15, 49, 47, 38, 35, 23, 37, 25,
         33, 27, 20, 41, 28, 44, 17>>,
       <<52, 2, 6, 23, 46, 42, 8, 34, 25, 44, 30, 38, 49, 12, 11, 14, 9, 32, 4, 51, 47, 50,
         26, 37, 15, 43, 40, 28, 29, 45, 31, 24, 21, 22, 41, 10, 17, 19, 27, 13, 48, 35, 39,
         7, 5, 1, 20, 3, 16, 33, 18, 36>> >>,
    \* random.seed(4)
    << <<38, 23, 40, 22, 17, 52, 29, 51, 43, 44, 8, 14, 37, 39, 41, 13, 11, 3, 33, 28, 46, 45,
         30, 25, 49, 42, 21, 27, 1, 32, 9, 50, 12, 18, 24, 35, 34, 15, 4, 19, 36, 48, 2, 5, 6,
         10, 31, 26, 47, 7, 20, 16>>,
       <<24, 43, 26, 25, 52, 8, 36, 2, 32, 33, 5, 16, 23, 1, 37, 4, 44, 47, 38, 46, 49, 50,
         12, 41, 9, 45, 48, 21, 7, 14, 40, 13, 10, 22, 31, 35, 34, 18, 30, 42, 6, 3, 17, 20,
         15, 11, 29, 51, 19, 39, 28, 27>>,
       <<37, 52, 8, 14, 33, 31, 39, 34, 3, 36, 42, 40, 32, 18, 16, 7, 24, 4, 28, 41, 22, 26,
         30, 15, 51, 12, 1, 35, 11, 50, 20, 25, 17, 9, 38, 29, 13, 43, 5, 27, 10, 47, 49, 46,
         2, 21, 44, 48, 19, 6, 45, 23>> >>,
    \* random.seed(5)
    << <<12, 19, 10, 39, 44, 28, 50, 37, 51, 52, 49, 26, 41, 33, 29, 32, 18, 22, 15, 21, 20,
         5, 3, 27, 13, 35, 6, 9, 14, 46, 38, 1, 36, 7, 25, 43, 31, 24, 8, 11, 4, 47, 16, 30,
         2, 34, 42, 45, 23, 48, 17, 40>>,
       <<19, 52, 48, 37, 45, 15, 7, 47, 26, 4, 46, 3, 34, 29, 8, 32, 40, 28, 14, 18, 49, 13,
         12, 41, 9, 50, 33, 35, 30, 16, 6, 21, 31, 36, 23, 42, 44, 43, 1, 38, 39, 51, 22, 5,
         17, 10, 11, 27, 24, 2, 20, 25>>,
       <<17, 11, 37, 15, 9, 42, 1, 46, 52, 8, 29, 27, 25, 12, 4, 40, 13, 36, 44, 2, 51, 16,
         31, 23, 39, 5, 32, 45, 26, 34, 49, 21, 20, 43, 35, 18, 41, 10, 47, 33, 22, 14, 6, 28,
         3, 19, 24, 48, 38, 7, 30, 50>> >>,
    \* random.seed(6)
    << <<28, 44, 5, 40, 39, 41, 23, 29, 33, 8, 50, 25, 16, 52, 46, 19, 45, 34, 4, 15, 9, 30,
         12, 35, 11, 14, 47, 42, 20, 26, 22, 48, 36, 7, 27, 13, 49, 18, 2, 21, 24, 31, 38, 43,
         10, 1, 3, 17, 32, 6, 37, 51>>,
       <<16, 28, 30, 36, 26, 35, 4, 2, 37, 19, 7, 3, 29, 45, 27, 5, 52, 23, 17, 32, 12, 10,
         24, 41, 22, 42, 11, 21, 49, 50, 48, 40, 1, 47, 14, 9, 15, 31, 25, 46, 20, 18, 43, 39,
         51, 13, 34, 44, 33, 6, 8, 38>>,
       <<1, 33, 3, 4, 41, 37, 10, 21, 44, 40, 49, 45, 36, 7, 39, 52, 42, 19, 22, 23, 26, 16,
         47, 25, 14, 48, 30, 11, 15, 50, 9, 43, 24, 17, 8, 35, 38, 2, 12, 32, 29, 18, 13, 6,
         27, 46, 20, 31, 28, 34, 5, 51>> >>,
    \* random.seed(7)
    << <<18, 40, 32, 11, 41, 12, 1, 20, 15, 51, 17, 9, 39, 45, 34, 46, 25, 30, 23, 13, 22, 44,
         31, 29, 50, 52, 8, 49, 19, 36, 2, 37, 43, 16, 47, 27, 28, 6, 3, 14, 33, 48, 38, 24,
         7, 35, 5, 4, 42, 26, 10, 21>>,
       <<34, 26, 42, 41, 13, 31, 22, 18, 9, 2, 23, 1, 7, 8, 25, 50, 27, 45, 51, 29, 48, 3, 52,
         39, 15, 49, 11, 33, 17, 10, 19, 6, 43, 12, 16, 20, 24, 47, 38, 30, 21, 28, 35, 44,
         32, 14, 40, 4, 37, 5, 46, 36>>,
       <<41, 21, 28, 12, 50, 1, 49, 48, 34, 44, 40, 22, 17, 36, 14, 27, 9, 35, 15, 51, 3, 16,
         26, 13, 33, 24, 46, 10, 39, 7, 47, 32, 8, 11, 38, 30, 2, 23, 25, 19, 29, 37, 42, 20,
         4, 52, 43, 45, 31, 18, 6, 5>> >>,
    \* random.seed(8)
    << <<5, 22, 51, 12, 29, 52, 19, 18, 45, 27, 11, 39, 7, 34, 10, 21, 31, 20, 28, 4, 42, 36,
         41, 17, 44, 23, 1, 35, 8, 43, 47, 40, 48, 37, 50, 38, 32, 30, 2, 26, 14, 33, 16, 49,
         6, 3, 46, 13, 9, 25, 24, 15>>,
       <<37, 2, 52, 50, 25, 18, 26, 46, 22, 14, 15, 48, 1, 4, 6, 8, 40, 49, 43, 24, 41, 12,
         51, 47, 34, 20, 17, 16, 27, 33, 31, 42, 21, 7, 11, 9, 28, 23, 36, 19, 29, 44, 30, 38,
         10, 13, 45, 32, 3, 35, 5, 39>>,
       <<7, 35, 34, 45, 36, 42, 38, 6, 30, 41, 21, 40, 50, 39, 18, 16, 5, 52, 47, 17, 24, 33,
         46, 4, 23, 10, 32, 19, 3, 31, 14, 29, 27, 9, 15, 28, 37, 44, 22, 25, 1, 49, 20, 48,
         13, 2, 51, 11, 8, 26, 43, 12>> >>,
    \* random.seed(9)
    << <<32, 16, 34, 47, 49, 48, 20, 15, 45, 31, 26, 38, 21, 27, 41, 50, 14, 42, 7, 10, 43,
         13, 23, 37, 19, 17, 5, 4, 2, 8, 51, 35, 28, 29, 11, 25, 3, 36, 46, 6, 39, 52, 33, 22,
         1, 44, 12, 9, 18, 24, 40, 30>>,
       <<44, 17, 23, 11, 20, 49, 26, 4, 25, 31, 46, 10, 15, 50, 12, 24, 37, 40, 36, 34, 5, 19,
         27, 21, 29, 41, 3, 14, 7, 30, 18, 32, 43, 33, 51, 35, 52, 6, 45, 22, 42, 13, 38, 47,
         1, 39, 8, 48, 28, 16, 2, 9>>,
       <<33, 27, 42, 40, 5, 30, 19, 43, 31, 20, 46, 35, 18, 12, 47, 16, 41, 39, 51, 52, 17, 4,
         36, 21, 10, 3, 11, 9, 15, 32, 7, 48, 28, 1, 22, 25, 2, 49, 13, 26, 14, 29, 24, 50, 8,
         23, 6, 45, 37, 38, 34, 44>> >>,
    \* random.seed(10)
    << <<23, 38, 41, 48, 43, 17, 2, 33, 4, 19, 26, 47, 7, 29, 35, 8, 39, 45, 49, 25, 6, 15, 9,
         22, 10, 46, 13, 12, 20, 36, 50, 27, 40, 24, 16, 5, 21, 44, 34, 51, 11, 42, 18, 32,
         30, 14, 1, 52, 31, 28, 3, 37>>,
       <<22, 44, 1, 39, 17, 49, 24, 18, 2, 48, 9, 51, 37, 40, 46, 8, 23, 30, 14, 50, 7, 52,
         41, 26, 25, 4, 34, 35, 12, 19, 13, 10, 6, 47, 20, 32, 45, 3, 16, 27, 15, 11, 33, 21,
         38, 42, 5, 31, 28, 29, 36, 43>>,
       <<38, 10, 37, 49, 36, 51, 4, 40, 47, 7, 2, 8, 9, 39, 46, 27, 24, 43, 12, 19, 33, 14, 5,
         13, 48, 44, 30, 41, 45, 34, 20, 31, 18, 42, 32, 25, 11, 26, 29, 17, 6, 16, 52, 22, 3,
         35, 1, 15, 28, 21, 23, 50>> >>,
    \* random.seed(11)
    << <<19, 5, 18, 16, 39, 32, 49, 11, 9, 4, 35, 14, 25, 22, 45, 23, 8, 46, 28, 2, 43, 17, 1,
         27, 34, 37, 51, 24, 21, 15, 42, 26, 3, 6, 10, 20, 48, 7, 44, 40, 41, 31, 47, 12, 13,
         38, 33, 52, 30, 50, 36, 29>>,
       <<8, 45, 10, 20, 23, 12, 44, 4, 34, 43, 50, 49, 47, 32, 24, 11, 9, 51, 3, 14, 29, 13,
         16, 40, 48, 35, 52, 22, 28, 1, 31, 39, 25, 41, 38, 26, 7, 37, 5, 2, 19, 33, 15, 21,
         17, 46, 6, 36, 27, 18, 42, 30>>,
       <<30, 41, 23, 47, 32, 24, 16, 6, 48, 17, 39, 50, 40, 22, 43, 3, 31, 10, 11, 37, 45, 15,
         7, 5, 34, 4, 19, 21, 35, 28, 46, 52, 38, 2, 20, 18, 1, 14, 51, 26, 8, 25, 42, 27, 9,
         49, 33, 29, 13, 36, 44, 12>> >>,
    \* random.seed(12)
    << <<21, 4, 9, 27, 12, 35, 5, 6, 20, 14, 47, 38, 16, 26, 41, 8, 33, 28, 37, 45, 13, 42,
         22, 17, 3, 40, 19, 2, 7, 49, 32, 11, 48, 29, 46, 44, 36, 15, 39, 30, 51, 52, 24, 1,
         25, 10, 23, 50, 34, 43, 18, 31>>,
       <<16, 5, 48, 36, 3, 21, 44, 15, 34, 10, 4, 52, 18, 7, 29, 30, 22, 41, 40, 14, 38, 1,
         47, 50, 19, 37, 28, 12, 11, 32, 9, 8, 20, 42, 24, 23, 17, 13, 51, 2, 35, 25, 46, 45,
         31, 49, 43, 27, 39, 26, 6, 33>>,
       <<37, 52, 43, 18, 35, 10, 7, 28, 49, 5, 51, 21, 3, 15, 26, 46, 48, 42, 2, 17, 27, 29,
         6, 36, 38, 9, 1, 20, 8, 34, 25, 13, 12, 44, 40, 11, 16, 50, 31, 45, 19, 22, 14, 24,
         30, 33, 4, 47, 41, 39, 23, 32>> >>,
    \* random.seed(13)
    << <<32, 34, 52, 49, 36, 4, 21, 22, 18, 38, 13, 6, 11, 7, 24, 20, 23, 16, 8, 41, 25, 29,
         37, 45, 31, 30, 26, 3, 39, 27, 33, 1, 40, 28, 2, 51, 14, 35, 5, 9, 48, 47, 46, 10,
         43, 15, 42, 12, 50, 44, 19, 17>>,
       <<46, 27, 36, 10, 22, 25, 42, 43, 11, 4, 50, 20, 40, 7, 48, 6, 38, 41, 47, 31, 8, 2,
         29, 1, 33, 15, 28, 21, 14, 3, 5, 44, 49, 52, 16, 32, 37, 9, 26, 18, 39, 45, 30, 24,
         17, 23, 34, 51, 13, 19, 12, 35>>,
       <<2, 32, 18, 25, 48, 7, 27, 39, 31, 46, 6, 42, 35, 47, 24, 44, 33, 16, 30, 20, 43, 9,
         26, 14, 4, 10, 40, 1, 17, 34, 21, 51, 29, 49, 28, 5, 41, 15, 8, 36, 11, 13, 19, 12,
         22, 37, 50, 23, 3, 52, 45, 38>> >>,
    \* random.seed(14)
    << <<28, 41, 13, 22, 47, 51, 10, 14, 36, 46, 52, 25, 24, 2, 43, 11, 4, 3, 1, 32, 39, 50,
         6, 48, 35, 27, 33, 31, 12, 9, 37, 23, 21, 15, 44, 8, 38, 26, 30, 20, 29, 5, 19, 17,
         18, 16, 34, 42, 49, 45, 40, 7>>,
       <<9, 25, 1, 21, 12, 46, 43, 26, 20, 5, 41, 27, 31, 39, 34, 23, 10, 15, 52, 35, 37, 28,
         16, 30, 3, 42, 45, 22, 4, 49, 24, 11, 2, 38, 36, 47, 6, 8, 7, 17, 50, 19, 51, 14, 40,
         29, 18, 13, 44, 33, 32, 48>>,
       <<11, 21, 8, 44, 6, 25, 15, 16, 5, 50, 14, 27, 33, 22, 52, 30, 12, 36, 40, 38, 19, 41,
         1, 10, 7, 43, 48, 35, 4, 9, 45, 39, 3, 13, 34, 20, 42, 17, 31, 24, 49, 23, 47, 28,
         26, 51, 2, 29, 37, 18, 46, 32>> >>,
    \* random.seed(15)
    << <<36, 49, 5, 9, 29, 51, 44, 25, 27, 13, 39, 6, 33, 20, 45, 41, 21, 32, 19, 42, 52, 50,
         43, 40, 47, 35, 12, 31, 7, 28, 38, 15, 37, 17, 26, 18, 23, 30, 22, 8, 46, 24, 10, 4,
         2, 16, 11, 3, 48, 34, 1, 14>>,
       <<9, 28, 23, 24, 1, 42, 39, 37, 48, 52, 49, 38, 29, 14, 20, 27, 44, 22, 16, 13, 11, 21,
         31, 25, 43, 41, 3, 51, 17, 18, 6, 15, 33, 50, 46, 36, 30, 5, 4, 26, 8, 7, 10, 32, 34,
         19, 2, 47, 45, 40, 12, 35>>,
       <<8, 51, 18, 39, 9, 41, 22, 23, 27, 42, 28, 40, 7, 16, 52, 24, 36, 26, 35, 10, 38, 34,
         12, 14, 13, 21, 25, 46, 2, 1, 20, 44, 47, 49, 15, 30, 6, 43, 48, 33, 50, 45, 31, 37,
         32, 11, 17, 4, 29, 3, 5, 19>> >>,
    \* random.seed(16)
    << <<11, 4, 41, 52, 46, 42, 25, 3, 14, 18, 6, 33, 13, 7, 44, 12, 38, 8, 35, 23, 32, 28,
         21, 36, 30, 26, 5, 39, 9, 34, 50, 40, 2, 37, 10, 22, 20, 49, 45, 47, 16, 17, 43, 48,
         1, 29, 15, 27, 19, 51, 31, 24>>,
       <<33, 28, 36, 49, 7, 41, 25, 14, 4, 17, 39, 9, 22, 6, 46, 26, 19, 18, 2, 12, 13, 35,
         23, 40, 50, 43, 48, 3, 44, 27, 15, 8, 38, 37, 47, 29, 52, 31, 11, 5, 42, 30, 21, 45,
         20, 10, 32, 16, 24, 34, 1, 51>>,
       <<42, 36, 6, 5, 11, 19, 50, 32, 27, 40, 46, 20, 18, 35, 23, 22, 29, 33, 39, 21, 28, 31,
         25, 45, 24, 15, 30, 2, 14, 13, 9, 47, 7, 49, 37, 34, 43, 1, 38, 12, 16, 17, 51, 10,
         52, 4, 44, 48, 8, 3, 41, 26>> >>,
    \* random.seed(17)
    << <<13, 15, 30, 40, 47, 48, 1, 6, 29, 50, 37, 45, 42, 36, 41, 14, 10, 3, 32, 49, 11, 28,
         22, 39, 44, 23, 31, 7, 52, 38, 5, 4, 9, 26, 21, 33, 17, 51, 25, 16, 2, 8, 18, 43, 35,
         46, 12, 19, 24, 20, 27, 34>>,
       <<33, 42, 3, 35, 43, 7, 28, 32, 10, 37, 47, 40, 44, 22, 45, 23, 15, 21, 51, 2, 48, 27,
         41, 25, 19, 39, 29, 6, 11, 12, 30, 20, 17, 9, 13, 49, 5, 18, 52, 50, 34, 46, 14, 36,
         8, 16, 26, 1, 38, 24, 31, 4>>,
       <<24, 42, 2, 15, 19, 45, 5, 40, 36, 28, 7, 31, 51, 50, 1, 44, 33, 30, 23, 29, 43, 37,
         25, 48, 18, 3, 16, 46, 22, 9, 34, 39, 6, 27, 11, 41, 49, 21, 20, 35, 4, 14, 8, 10,
         17, 13, 12, 52, 38, 47, 32, 26>> >>,
    \* random.seed(18)
    << <<2, 18, 15, 20, 39, 3, 14, 5, 25, 44, 26, 34, 27, 23, 4, 37, 11, 1, 9, 10, 28, 50, 48,
         49, 36, 40, 33, 24, 7, 35, 6, 47, 42, 21, 51, 38, 46, 17, 30, 19, 31, 52, 45, 41, 32,
         13, 16, 22, 29, 43, 8, 12>>,
       <<26, 39, 6, 46, 42, 40, 4, 15, 48, 52, 24, 2, 20, 23, 38, 1, 34, 35, 36, 12, 18, 25,
         21, 8, 47, 45, 29, 30, 5, 16, 3, 50, 22, 17, 43, 7, 51, 49, 27, 9, 28, 14, 13, 11,
         41, 44, 32, 10, 33, 37, 31, 19>>,
       <<4, 12, 38, 41, 15, 27, 32, 31, 17, 21, 46, 47, 3, 36, 19, 6, 8, 5, 26, 23, 18, 29,
         16, 13, 50, 14, 52, 34, 51, 25, 42, 7, 30, 33, 1, 39, 11, 49, 43, 37, 2, 35, 28, 9,
         20, 40, 48, 22, 10, 24, 45, 44>> >>,
    \* random.seed(19)
    << <<9, 16, 37, 32, 22, 6, 11, 28, 5, 49, 36, 24, 12, 30, 2, 31, 14, 45, 25, 47, 15, 52,
         4, 46, 51, 48, 20, 43, 1, 41, 29, 35, 42, 18, 21, 27, 40, 7, 17, 39, 10, 38, 19, 50,
         23, 26, 13, 33, 8, 34, 3, 44>>,
       <<51, 2, 20, 19, 35, 43, 11, 22, 17, 21, 50, 12, 40, 44, 26, 10, 16, 5, 47, 4, 23, 49,
         15, 27, 3, 38, 46, 6, 37, 18, 29, 28, 24, 45, 33, 39, 34, 8, 31, 42, 1, 30, 36, 7,
         32, 41, 48, 9, 13, 25, 14, 52>>,
       <<8, 25, 24, 52, 31, 17, 35, 45, 39, 34, 37, 36, 15, 32, 26, 41, 42, 10, 13, 1, 38, 23,
         21, 14, 3, 22, 16, 20, 51, 4, 50, 46, 19, 40, 11, 9, 6, 47, 18, 28, 12, 2, 43, 29,
         33, 48, 5, 30, 7, 27, 49, 44>> >>,
    \* random.seed(20)
    << <<32, 20, 25, 15, 12, 18, 6, 36, 49, 38, 24, 19, 46, 4, 1, 8, 30, 23, 13, 16, 48, 28,
         3, 14, 26, 33, 22, 35, 42, 34, 43, 39, 29, 31, 52, 9, 45, 5, 40, 27, 2, 11, 37, 21,
         7, 41, 51, 17, 10, 50, 44, 47>>,
       <<48, 21, 41, 44, 49, 33, 43, 36, 6, 52, 32, 13, 24, 50, 3, 27, 7, 17, 2, 38, 8, 12,
         14, 19, 25, 5, 31, 47, 35, 23, 30, 26, 34, 11, 28, 45, 10, 29, 39, 22, 9, 18, 20, 40,
         42, 1, 4, 16, 37, 51, 15, 46>>,
       <<43, 35, 26, 29, 12, 34, 41, 16, 48, 21, 28, 23, 40, 25, 32, 18, 19, 8, 47, 31, 38, 4,
         9, 14, 27, 10, 49, 44, 24, 45, 30, 39, 11, 50, 52, 33, 15, 13, 2, 3, 20, 46, 42, 17,
         51, 6, 7, 37, 5, 1, 22, 36>> >>,
    \* random.seed(21)
    << <<7, 48, 29, 17, 9, 6, 40, 26, 44, 22, 13, 21, 47, 3, 37, 42, 4, 39, 18, 52, 35, 32,
         20, 49, 25, 36, 50, 2, 23, 8, 30, 15, 10, 5, 28, 24, 38, 1, 16, 34, 43, 12, 33, 46,
         14, 31, 19, 41, 51, 45, 27, 11>>,
       <<18, 26, 41, 28, 7, 24, 40, 2, 20, 45, 4, 29, 30, 42, 23, 21, 19, 34, 37, 6, 50, 1, 9,
         32, 48, 11, 35, 17, 15, 52, 33, 27, 10, 22, 46, 25, 39, 49, 36, 8, 47, 38, 51, 44,
         14, 13, 5, 16, 31, 3, 43, 12>>,
       <<44, 46, 37, 36, 35, 45, 17, 26, 13, 38, 31, 43, 40, 4, 48, 19, 50, 9, 21, 10, 2, 51,
         14, 15, 41, 18, 6, 30, 29, 8, 22, 25, 33, 32, 23, 1, 42, 27, 52, 34, 3, 47, 24, 28,
         12, 5, 11, 7, 16, 20, 39, 49>> >>,
    \* random.seed(22)
    << <<48, 37, 22, 25, 46, 1, 27, 30, 31, 41, 3, 49, 43, 51, 5, 13, 35, 52, 38, 20, 11, 33,
         26, 24, 32, 19, 34, 44, 7, 14, 10, 17, 50, 39, 28, 36, 47, 21, 4, 18, 15, 6, 23, 42,
         8, 45, 12, 29, 40, 2, 16, 9>>,
       <<29, 10, 5, 49, 18, 47, 21, 39, 11, 22, 32, 16, 9, 51, 31, 23, 30, 52, 1, 42, 8, 17,
         7, 40, 13, 25, 14, 4, 46, 15, 3, 6, 41, 28, 50, 35, 36, 44, 45, 2, 38, 48, 24, 37,
         20, 12, 43, 26, 27, 34, 19, 33>>,
       <<5, 36, 18, 17, 40, 15, 43, 46, 25, 31, 14, 2, 11, 47, 35, 6, 1, 26, 33, 20, 44, 12,
         23, 21, 37, 39, 29, 16, 28, 24, 22, 19, 9, 34, 32, 41, 3, 30, 38, 10, 8, 27, 49, 4,
         7, 45, 52, 13, 48, 42, 50, 51>> >>,
    \* random.seed(23)
    << <<41, 36, 42, 40, 26, 4, 16, 3, 8, 22, 37, 46, 11, 5, 10, 39, 47, 43, 33, 45, 51, 27,
         44, 35, 12, 31, 24, 21, 17, 48, 14, 32, 52, 7, 49, 30, 15, 1, 29, 18, 13, 9, 23, 34,
         25, 28, 20, 38, 2, 6, 19, 50>>,
       <<14, 46, 17, 32, 49, 43, 33, 1, 26, 40, 41, 2, 30, 51, 27, 23, 11, 48, 16, 50, 20, 4,
         5, 9, 47, 31, 15, 25, 29, 10, 36, 19, 24, 42, 22, 45, 39, 18, 37, 3, 28, 7, 6, 8, 38,
         13, 34, 44, 21, 35, 52, 12>>,
       <<16, 40, 37, 10, 48, 20, 22, 42, 12, 33, 31, 11, 27, 34, 26, 49, 41, 14, 45, 9, 8, 24,
         28, 43, 50, 21, 36, 18, 47, 38, 7, 19, 46, 39, 30, 17, 5, 3, 13, 32, 25, 2, 23, 6,
         29, 35, 4, 51, 1, 44, 15, 52>> >>,
    \* random.seed(24)
    << <<40, 41, 7, 37, 26, 24, 17, 48, 21, 5, 33, 52, 23, 4, 15, 36, 49, 18, 28, 50, 35, 27,
         44, 20, 9, 51, 31, 3, 16, 42, 22, 39, 32, 45, 34, 2, 8, 30, 29, 1, 19, 10, 6, 43, 47,
         13, 11, 14, 12, 38, 25, 46>>,
       <<19, 2, 27, 23, 28, 1, 35, 4, 34, 24, 20, 25, 29, 51, 14, 12, 46, 47, 22, 43, 7, 40,
         8, 26, 50, 30, 11, 38, 5, 44, 3, 16, 15, 52, 17, 33, 41, 9, 39, 49, 31, 21, 45, 42,
         10, 32, 37, 6, 13, 18, 48, 36>>,
       <<23, 51, 5, 2, 41, 16, 4, 17, 43, 22, 12, 47, 31, 7, 8, 30, 42, 39, 13, 14, 28, 44,
         18, 9, 1, 46, 33, 38, 48, 40, 11, 10, 36, 24, 20, 19, 15, 26, 45, 34, 37, 32, 35, 25,
         27, 21, 50, 3, 6, 49, 52, 29>> >>,
    \* random.seed(25)
    << <<36, 52, 24, 29, 47, 11, 5, 51, 43, 9, 32, 10, 18, 30, 2, 15, 6, 39, 26, 49, 35, 19,
         42, 40, 22, 34, 27, 4, 46, 16, 44, 23, 12, 21, 33, 13, 8, 38, 7, 28, 37, 48, 45, 17,
         3, 31, 41, 20, 14, 1, 50, 25>>,
       <<13, 14, 37, 1, 34, 9, 46, 43, 10, 48, 20, 26, 16, 24, 18, 35, 17, 39, 7, 12, 49, 36,
         38, 21, 6, 22, 8, 3, 41, 44, 50, 5, 23, 52, 15, 47, 2, 30, 25, 27, 45, 11, 19, 51, 4,
         29, 31, 42, 33, 40, 32, 28>>,
       <<43, 30, 28, 13, 7, 23, 1, 25, 16, 39, 26, 47, 19, 45, 10, 27, 9, 24, 44, 32, 5, 52,
         31, 22, 14, 36, 41, 35, 20, 6, 29, 18, 50, 11, 34, 4, 3, 38, 42, 8, 33, 17, 48, 12,
         51, 49, 15, 40, 37, 46, 2, 21>> >>,
    \* random.seed(26)
    << <<38, 49, 42, 50, 17, 26, 30, 24, 6, 44, 41, 22, 23, 29, 47, 34, 45, 18, 32, 21, 1, 19,
         8, 12, 46, 25, 36, 37, 20, 7, 5, 10, 15, 2, 51, 27, 16, 52, 11, 33, 40, 3, 31, 9, 4,
         35, 39, 28, 14, 43, 13, 48>>,
       <<33, 1, 22, 16, 49, 51, 30, 44, 42, 32, 41, 29, 20, 21, 50, 8, 31, 12, 48, 37, 19, 15,
         23, 46, 2, 26, 45, 38, 11, 18, 47, 6, 24, 14, 27, 43, 3, 36, 35, 9, 5, 7, 52, 10, 34,
         39, 28, 25, 40, 13, 17, 4>>,
       <<15, 27, 7, 17, 30, 35, 21, 44, 32, 41, 47, 48, 23, 25, 26, 13, 33, 16, 9, 24, 18, 14,
         22, 49, 42, 20, 39, 36, 29, 6, 51, 5, 11, 50, 19, 4, 28, 2, 43, 46, 12, 38, 52, 31,
         45, 40, 8, 34, 1, 37, 10, 3>> >>,
    \* random.seed(27)
    << <<51, 48, 30, 49, 10, 33, 4, 3, 39, 23, 29, 27, 47, 7, 43, 20, 41, 8, 11, 34, 9, 36,
         21, 1, 38, 15, 52, 2, 40, 14, 25, 28, 6, 50, 32, 37, 16, 12, 26, 24, 44, 22, 35, 17,
         46, 5, 13, 19, 18, 45, 31, 42>>,
       <<48, 25, 26, 38, 15, 21, 4, 44, 34, 14, 9, 28, 43, 22, 32, 19, 13, 33, 51, 36, 3, 18,
         16, 45, 7, 6, 8, 40, 2, 35, 41, 39, 31, 52, 17, 11, 24, 50, 47, 30, 49, 20, 5, 27,
         46, 37, 23, 10, 29, 1, 42, 12>>,
       <<25, 21, 49, 10, 17, 39, 26, 9, 23, 15, 42, 5, 51, 16, 18, 2, 33, 37, 22, 11, 34, 40,
         45, 43, 20, 32, 41, 12, 47, 29, 6, 46, 30, 27, 28, 48, 3, 7, 52, 13, 24, 4, 38, 1, 8,
         44, 35, 36, 31, 50, 14, 19>> >>,
    \* random.seed(28)
    << <<20, 29, 16, 28, 19, 18, 25, 38, 32, 43, 47, 37, 21, 33, 1, 7, 24, 45, 42, 49, 22, 17,
         6, 5, 23, 36, 31, 4, 3, 52, 51, 2, 34, 13, 44, 11, 26, 10, 40, 14, 27, 30, 41, 50,
         15, 12, 46, 39, 35, 9, 48, 8>>,
       <<10, 19, 47, 9, 6, 1, 31, 49, 38, 21, 8, 26, 18, 29, 50, 14, 42, 7, 44, 36, 51, 16, 4,
         48, 43, 23, 22, 39, 46, 30, 34, 37, 40, 2, 27, 35, 13, 20, 41, 15, 12, 33, 45, 17,
         25, 11, 52, 32, 28, 3, 5, 24>>,
       <<21, 49, 27, 35, 43, 47, 45, 10, 23, 38, 4, 40, 2, 12, 14, 20, 18, 39, 16, 22, 11, 28,
         41, 31, 17, 46, 37, 32, 25, 5, 3, 52, 48, 19, 8, 51, 7, 36, 13, 26, 15, 6, 50, 24,
         30, 42, 1, 33, 34, 44, 9, 29>> >>,
    \* random.seed(29)
    << <<28, 1, 41, 12, 31, 16, 11, 40, 20, 43, 21, 4, 13, 9, 51, 10, 30, 18, 38, 17, 47, 52,
         45, 25, 14, 8, 35, 37, 48, 24, 34, 42, 22, 32, 46, 44, 15, 29, 7, 3, 2, 27, 26, 50,
         33, 6, 19, 49, 39, 23, 5, 36>>,
       <<25, 20, 38, 7, 43, 12, 16, 6, 8, 42, 3, 15, 31, 50, 40, 44, 49, 23, 4, 51, 46, 32,
         33, 37, 41, 29, 52, 34, 35, 39, 13, 2, 1, 18, 14, 21, 48, 19, 30, 28, 27, 11, 26, 36,
         5, 22, 45, 10, 17, 9, 24, 47>>,
       <<12, 39, 31, 20, 5, 32, 18, 51, 46, 7, 23, 27, 36, 34, 40, 24, 45, 28, 33, 4, 29, 44,
         6, 19, 10, 30, 47, 52, 26, 41, 38, 37, 21, 17, 49, 1, 43, 22, 16, 35, 14, 50, 15, 25,
         42, 3, 11, 48, 8, 13, 9, 2>> >>,
    \* random.seed(30)
    << <<45, 48, 36, 47, 29, 7, 20, 52, 15, 33, 32, 31, 37, 24, 10, 28, 39, 44, 23, 46, 41,
         22, 51, 8, 38, 13, 3, 18, 12, 21, 27, 43, 11, 5, 49, 16, 34, 1, 30, 6, 9, 25, 26, 4,
         17, 14, 42, 50, 2, 40, 19, 35>>,
       <<1, 36, 11, 3, 4, 15, 18, 13, 27, 37, 28, 46, 39, 21, 50, 35, 8, 14, 10, 44, 26, 24,
         25, 6, 38, 23, 41, 19, 9, 16, 30, 17, 32, 45, 7, 2, 5, 40, 52, 43, 29, 51, 22, 47,
         31, 49, 42, 34, 12, 20, 33, 48>>,
       <<6, 46, 25, 44, 30, 35, 52, 43, 14, 18, 28, 41, 10, 7, 4, 32, 48, 45, 23, 42, 40, 31,
         37, 15, 49, 12, 33, 16, 51, 27, 5, 1, 29, 38, 26, 17, 39, 3, 36, 22, 8, 13, 2, 21,
         50, 19, 11, 47, 9, 34, 20, 24>> >>,
    \* random.seed(31)
    << <<51, 21, 5, 16, 34, 17, 2, 42, 6, 30, 20, 28, 36, 22, 39, 32, 18, 23, 43, 12, 48, 33,
         24, 7, 11, 13, 25, 52, 37, 38, 19, 14, 27, 29, 41, 40, 4, 45, 47, 46, 15, 35, 50, 9,
         3, 44, 10, 26, 49, 8, 31, 1>>,
       <<48, 23, 16, 33, 38, 35, 9, 34, 30, 8, 2, 40, 11, 43, 5, 46, 4, 12, 1, 32, 49, 41, 29,
         37, 27, 20, 18, 6, 10, 25, 36, 7, 50, 21, 44, 26, 39, 19, 45, 17, 3, 31, 15, 52, 22,
         13, 24, 47, 28, 51, 14, 42>>,
       <<47, 5, 26, 23, 20, 14, 7, 28, 21, 17, 38, 39, 2, 36, 48, 6, 15, 45, 19, 49, 43, 29,
         35, 12, 44, 30, 16, 52, 1, 25, 27, 34, 9, 37, 51, 3, 42, 24, 18, 33, 40, 32, 4, 31,
         10, 46, 11, 22, 50, 13, 8, 41>> >>,
    \* random.seed(32)
    << <<12, 52, 26, 49, 51, 8, 40, 23, 18, 19, 38, 13, 47, 30, 41, 37, 6, 42, 17, 48, 39, 11,
         44, 15, 28, 50, 29, 43, 27, 25, 36, 46, 35, 9, 1, 24, 31, 34, 4, 22, 33, 21, 7, 3, 2,
         32, 16, 45, 20, 10, 14, 5>>,
       <<40, 45, 4, 30, 21, 17, 36, 20, 8, 32, 42, 34, 14, 25, 35, 41, 39, 7, 24, 13, 27, 10,
         18, 33, 9, 43, 50, 2, 47, 48, 23, 11, 29, 12, 1, 31, 5, 28, 44, 26, 16, 49, 22, 46,
         15, 19, 38, 3, 6, 51, 52, 37>>,
       <<4, 22, 27, 43, 41, 19, 28, 37, 20, 34, 36, 18, 42, 31, 29, 40, 5, 35, 17, 26, 10, 12,
         6, 30, 45, 3, 46, 52, 8, 14, 50, 21, 11, 49, 7, 2, 32, 1, 16, 44, 48, 23, 39, 9, 33,
         13, 24, 47, 38, 51, 25, 15>> >>,
    \* random.seed(33)
    << <<45, 7, 52, 1, 25, 3, 23, 13, 36, 43, 6, 30, 26, 38, 49, 39, 28, 4, 8, 48, 51, 9, 14,
         22, 32, 50, 24, 2, 16, 17, 10, 27, 20, 5, 19, 29, 47, 44, 21, 33, 40, 46, 12, 34, 35,
         42, 31, 18, 15, 41, 11, 37>>,
       <<45, 14, 30, 17, 9, 11, 48, 34, 35, 2, 39, 51, 29, 38, 43, 46, 32, 40, 50, 33, 19, 49,
         16, 20, 15, 13, 37, 22, 31, 28, 7, 23, 18, 27, 4, 1, 21, 42, 6, 10, 5, 47, 52, 41,
         24, 3, 8, 44, 12, 25, 26, 36>>,
       <<34, 7, 5, 52, 48, 16, 8, 41, 15, 1, 9, 38, 36, 42, 13, 22, 35, 44, 14, 12, 51, 24,
         10, 20, 43, 23, 29, 4, 46, 11, 50, 21, 26, 2, 25, 37, 49, 17, 27, 33, 28, 18, 30, 19,
         39, 6, 45, 3, 31, 40, 47, 32>> >>,
    \* random.seed(34)
    << <<48, 39, 11, 43, 41, 16, 44, 36, 30, 29, 31, 8, 14, 4, 42, 21, 52, 32, 19, 6, 13, 27,
         35, 45, 9, 12, 47, 26, 3, 17, 46, 37, 1, 51, 18, 40, 10, 33, 50, 7, 22, 20, 28, 5,
         24, 25, 49, 15, 2, 38, 23, 34>>,
       <<41, 16, 11, 23, 42, 47, 1, 2, 36, 40, 44, 28, 7, 20, 33, 14, 39, 21, 51, 4, 17, 32,
         3, 25, 10, 37, 45, 35, 9, 15, 49, 24, 30, 46, 31, 34, 6, 50, 22, 26, 12, 13, 19, 52,
         8, 27, 18, 29, 5, 48, 43, 38>>,
       <<7, 2, 36, 30, 14, 16, 42, 45, 23, 32, 19, 46, 10, 20, 34, 37, 29, 13, 51, 6, 49, 26,
         21, 9, 5, 25, 15, 38, 47, 28, 3, 41, 39, 8, 44, 11, 4, 35, 33, 17, 40, 1, 18, 43, 24,
         31, 22, 27, 48, 52, 50, 12>> >>,
    \* random.seed(35)
    << <<25, 50, 32, 41, 15, 13, 29, 43, 45, 5, 14, 44, 21, 23, 46, 39, 20, 6, 3, 26, 8, 27,
         2, 30, 47, 11, 40, 31, 12, 16, 52, 42, 35, 33, 1, 38, 7, 24, 18, 34, 4, 37, 17, 28,
         19, 10, 51, 48, 9, 49, 22, 36>>,
       <<11, 2, 18, 27, 15, 16, 38, 21, 45, 14, 48, 34, 10, 32, 12, 37, 47, 23, 20, 4, 43, 46,
         6, 28, 35, 42, 24, 19, 9, 1, 41, 51, 29, 13, 52, 50, 5, 7, 31, 44, 22, 8, 49, 36, 33,
         30, 39, 17, 3, 25, 40, 26>>,
       <<43, 41, 29, 16, 9, 3, 10, 28, 37, 17, 2, 5, 49, 14, 38, 47, 44, 24, 48, 46, 12, 8,
         51, 27, 21, 20, 15, 1, 13, 26, 42, 30, 36, 6, 50, 23, 7, 32, 19, 31, 39, 22, 11, 33,
         35, 18, 40, 34, 25, 45, 4, 52>> >>,
    \* random.seed(36)
    << <<44, 15, 39, 21, 14, 50, 9, 38, 37, 31, 3, 45, 52, 20, 47, 49, 11, 34, 30, 10, 40, 7,
         43, 17, 51, 48, 29, 8, 13, 26, 46, 23, 25, 32, 27, 5, 35, 42, 36, 24, 28, 18, 16, 12,
         41, 33, 1, 6, 19, 2, 4, 22>>,
       <<10, 34, 23, 45, 1, 48, 51, 49, 27, 47, 39, 32, 26, 13, 22, 17, 40, 31, 8, 7, 15, 21,
         4, 3, 9, 35, 46, 18, 44, 36, 38, 25, 2, 28, 24, 43, 5, 12, 11, 37, 14, 20, 52, 6, 29,
         19, 50, 42, 30, 33, 41, 16>>,
       <<39, 35, 16, 1, 37, 42, 14, 24, 50, 33, 17, 46, 23, 45, 31, 11, 43, 51, 38, 48, 36, 2,
         34, 40, 26, 10, 22, 15, 5, 4, 30, 41, 7, 28, 29, 19, 9, 13, 21, 18, 12, 49, 27, 52,
         8, 44, 25, 6, 47, 32, 3, 20>> >>,
    \* random.seed(37)
    << <<8, 5, 35, 26, 36, 51, 13, 46, 15, 32, 9, 11, 16, 1, 20, 48, 49, 17, 2, 22, 27, 37,
         38, 31, 23, 21, 12, 52, 18, 45, 14, 50, 4, 10, 42, 28, 25, 19, 30, 7, 34, 29, 24, 47,
         3, 33, 41, 43, 40, 6, 39, 44>>,
       <<6, 7, 13, 23, 25, 30, 36, 16, 41, 17, 27, 44, 24, 37, 2, 22, 38, 28, 12, 11, 5, 26,
         50, 51, 8, 32, 9, 1, 21, 35, 34, 46, 29, 4, 43, 39, 10, 31, 52, 18, 19, 3, 40, 49,
         42, 33, 15, 45, 20, 47, 48, 14>>,
       <<46, 17, 33, 6, 24, 30, 20, 44, 13, 51, 25, 22, 32, 43, 36, 49, 27, 47, 52, 41, 12,
         16, 19, 39, 42, 50, 31, 2, 10, 3, 7, 40, 21, 29, 26, 48, 15, 4, 37, 5, 18, 23, 1, 35,
         34, 38, 28, 11, 45, 8, 14, 9>> >>,
    \* random.seed(38)
    << <<48, 19, 6, 9, 10, 4, 32, 40, 43, 15, 29, 25, 2, 35, 50, 37, 52, 36, 12, 13, 1, 33,
         51, 14, 46, 16, 17, 42, 34, 44, 8, 26, 31, 20, 22, 18, 21, 23, 38, 11, 39, 3, 45, 30,
         24, 5, 7, 47, 49, 28, 27, 41>>,
       <<44, 4, 14, 26, 33, 23, 22, 7, 31, 39, 21, 9, 29, 18, 35, 42, 30, 15, 5, 13, 8, 36,
         25, 47, 50, 40, 45, 51, 1, 3, 52, 43, 38, 46, 10, 2, 20, 49, 37, 34, 16, 6, 24, 11,
         48, 28, 12, 17, 41, 19, 32, 27>>,
       <<11, 37, 24, 32, 26, 52, 5, 29, 31, 21, 7, 51, 38, 46, 8, 33, 41, 39, 49, 1, 10, 13,
         44, 15, 23, 28, 3, 18, 40, 4, 36, 25, 16, 20, 34, 48, 12, 27, 9, 50, 19, 14, 43, 35,
         30, 6, 2, 47, 42, 17, 45, 22>> >>,
    \* random.seed(39)
    << <<45, 30, 16, 21, 20, 22, 29, 6, 34, 40, 8, 27, 36, 33, 18, 39, 35, 11, 32, 31, 47, 3,
         9, 10, 38, 43, 48, 4, 50, 46, 52, 41, 28, 7, 44, 24, 5, 19, 49, 12, 23, 51, 42, 1,
         37, 26, 15, 13, 2, 25, 17, 14>>,
       <<36, 51, 35, 22, 40, 24, 37, 29, 48, 10, 13, 46, 42, 49, 14, 41, 43, 11, 45, 38, 30,
         50, 52, 23, 8, 17, 47, 21, 32, 18, 4, 15, 9, 25, 1, 39, 2, 3, 27, 6, 33, 31, 26, 7,
         16, 19, 44, 20, 12, 5, 28, 34>>,
       <<41, 22, 33, 2, 29, 26, 28, 35, 31, 39, 50, 34, 44, 24, 17, 25, 11, 20, 16, 32, 13,
         43, 6, 47, 38, 1, 10, 40, 48, 3, 27, 49, 19, 12, 21, 9, 51, 18, 23, 45, 36, 30, 46,
         52, 42, 7, 4, 15, 5, 37, 14, 8>> >>,
    \* random.seed(40)
    << <<1, 48, 7, 31, 8, 40, 15, 10, 47, 33, 37, 24, 49, 12, 39, 21, 25, 51, 44, 27, 45, 22,
         17, 5, 28, 36, 32, 11, 20, 26, 6, 35, 52, 13, 4, 42, 50, 2, 29, 18, 23, 9, 14, 46,
         41, 43, 19, 16, 3, 34, 38, 30>>,
       <<25, 50, 17, 23, 24, 33, 21, 12, 32, 29, 9, 27, 46, 45, 52, 35, 48, 4, 15, 44, 47, 41,
         51, 2, 3, 42, 26, 19, 18, 28, 10, 36, 22, 31, 7, 37, 43, 16, 13, 8, 20, 40, 30, 6, 1,
         49, 39, 14, 38, 11, 5, 34>>,
       <<30, 15, 7, 52, 3, 42, 8, 5, 47, 19, 32, 34, 18, 9, 48, 39, 38, 51, 23, 1, 10, 24, 29,
         50, 36, 37, 13, 25, 21, 26, 2, 40, 41, 35, 20, 31, 28, 27, 14, 44, 33, 45, 49, 46, 4,
         16, 11, 22, 12, 6, 43, 17>> >>,
    \* random.seed(41)
    << <<33, 8, 26, 31, 51, 9, 30, 6, 32, 43, 13, 42, 41, 50, 24, 40, 5, 39, 12, 3, 7, 35, 14,
         27, 28, 4, 38, 46, 20, 23, 34, 17, 49, 21, 44, 10, 29, 2, 16, 1, 47, 48, 18, 36, 19,
         45, 37, 52, 11, 15, 22, 25>>,
       <<17, 13, 33, 19, 25, 34, 37, 8, 24, 49, 12, 52, 46, 16, 50, 31, 22, 14, 23, 4, 39, 3,
         36, 38, 11, 40, 21, 35, 29, 1, 42, 18, 28, 41, 30, 5, 9, 47, 45, 15, 51, 32, 44, 48,
         2, 27, 6, 43, 7, 10, 26, 20>>,
       <<27, 38, 41, 17, 33, 10, 52, 1, 32, 24, 50, 23, 43, 26, 9, 7, 34, 45, 13, 28, 4, 37,
         49, 5, 20, 42, 48, 30, 3, 8, 22, 31, 12, 15, 2, 39, 11, 36, 51, 6, 29, 19, 47, 40,
         21, 46, 25, 18, 16, 44, 14, 35>> >>,
    \* random.seed(42)
    << <<10, 24, 26, 4, 22, 39, 17, 40, 20, 12, 47, 25, 34, 30, 32, 44, 5, 29, 11, 27, 37, 1,
         45, 19, 43, 51, 36, 49, 31, 21, 23, 13, 52, 33, 46, 14, 42, 50, 3, 28, 38, 6, 35, 7,
         9, 15, 16, 18, 48, 2, 8, 41>>,
       <<14, 44, 16, 10, 26, 47, 2, 1, 17, 4, 27, 34, 32, 43, 29, 38, 50, 8, 35, 39, 33, 20,
         42, 21, 28, 23, 9, 22, 45, 31, 12, 11, 46, 30, 18, 52, 7, 48, 51, 49, 15, 3, 5, 13,
         37, 24, 40, 41, 19, 36, 6, 25>>,
       <<27, 8, 44, 12, 19, 22, 7, 23, 43, 34, 11, 1, 29, 33, 40, 50, 18, 13, 51, 20, 48, 6,
         49, 31, 4, 2, 25, 3, 39, 38, 5, 15, 24, 45, 28, 41, 35, 36, 16, 9, 17, 10, 30, 47,
         26, 32, 42, 52, 21, 46, 37, 14>> >>,
    \* random.seed(43)
    << <<15, 25, 44, 51, 8, 22, 18, 21, 11, 38, 52, 14, 48, 1, 40, 20, 36, 9, 23, 29, 34, 16,
         17, 6, 31, 5, 13, 50, 27, 41, 35, 4, 12, 26, 37, 46, 28, 33, 2, 42, 32, 39, 47, 7,
         43, 24, 30, 10, 49, 45, 19, 3>>,
       <<15, 17, 38, 46, 51, 49, 19, 1, 33, 52, 41, 28, 26, 13, 10, 37, 39, 45, 27, 3, 32, 50,
         31, 2, 14, 23, 35, 36, 25, 44, 16, 20, 8, 5, 12, 24, 18, 4, 21, 6, 9, 11, 29, 43, 34,
         48, 22, 47, 42, 30, 40, 7>>,
       <<33, 24, 40, 5, 47, 31, 20, 11, 9, 19, 1, 4, 15, 38, 16, 34, 42, 44, 48, 10, 49, 43,
         29, 23, 7, 28, 18, 39, 2, 12, 36, 21, 27, 45, 37, 13, 26, 14, 41, 3, 6, 25, 51, 30,
         17, 32, 35, 46, 8, 22, 52, 50>> >>,
    \* random.seed(44)
    << <<14, 5, 16, 42, 13, 22, 31, 32, 23, 18, 41, 43, 38, 51, 39, 28, 36, 29, 9, 24, 44, 30,
         17, 4, 6, 50, 10, 52, 40, 3, 47, 21, 26, 46, 20, 33, 11, 7, 1, 37, 48, 49, 2, 19, 15,
         25, 12, 8, 45, 35, 34, 27>>,
       <<17, 34, 9, 36, 26, 5, 14, 32, 49, 28, 50, 16, 2, 43, 6, 4, 13, 7, 27, 12, 39, 40, 33,
         21, 20, 25, 19, 37, 29, 8, 1, 11, 18, 51, 23, 47, 44, 15, 10, 35, 38, 30, 41, 31, 24,
         22, 42, 45, 52, 48, 3, 46>>,
       <<30, 9, 46, 7, 38, 14, 36, 8, 21, 29, 39, 23, 32, 6, 2, 15, 27, 47, 37, 22, 24, 10, 3,
         16, 35, 11, 20, 26, 41, 25, 33, 43, 17, 31, 49, 4, 13, 34, 12, 44, 28, 50, 45, 18, 5,
         51, 19, 52, 40, 1, 48, 42>> >>,
    \* random.seed(45)
    << <<51, 34, 13, 4, 49, 33, 39, 24, 30, 16, 26, 42, 15, 7, 21, 40, 12, 35, 11, 48, 46, 45,
         29, 36, 43, 38, 37, 50, 23, 25, 28, 14, 10, 52, 9, 44, 3, 47, 41, 19, 8, 1, 31, 5, 2,
         22, 20, 6, 17, 32, 27, 18>>,
       <<52, 7, 48, 29, 3, 15, 33, 8, 5, 31, 12, 37, 43, 26, 42, 13, 47, 9, 1, 50, 35, 24, 11,
         38, 34, 17, 21, 22, 18, 44, 20, 49, 4, 39, 6, 36, 30, 51, 45, 25, 27, 14, 19, 28, 40,
         46, 32, 16, 2, 41, 10, 23>>,
       <<49, 37, 21, 27, 28, 20, 48, 30, 24, 52, 38, 45, 4, 50, 16, 15, 44, 22, 8, 42, 19, 36,
         3, 1, 47, 23, 35, 34, 46, 33, 13, 18, 25, 29, 43, 11, 26, 9, 41, 6, 5, 14, 40, 12, 7,
         31, 17, 39, 51, 10, 2, 32>> >>,
    \* random.seed(46)
    << <<42, 33, 1, 7, 43, 45, 51, 17, 32, 44, 36, 24, 27, 28, 31, 30, 11, 8, 14, 37, 20, 18,
         25, 46, 47, 29, 39, 12, 16, 23, 13, 6, 22, 19, 9, 40, 4, 21, 52, 2, 50, 35, 48, 10,
         34, 41, 15, 49, 38, 3, 26, 5>>,
       <<18, 32, 3, 49, 9, 43, 37, 45, 7, 27, 46, 51, 15, 52, 30, 2, 17, 29, 25, 31, 10, 26,
         22, 1, 41, 6, 35, 28, 47, 4, 33, 42, 13, 11, 34, 39, 12, 36, 24, 48, 19, 5, 21, 44,
         40, 16, 38, 8, 14, 50, 23, 20>>,
       <<38, 14, 40, 26, 15, 19, 23, 39, 5, 6, 44, 32, 17, 12, 24, 22, 28, 27, 11, 1, 29, 50,
         33, 35, 52, 16, 30, 42, 36, 37, 2, 34, 18, 21, 41, 8, 13, 4, 7, 3, 45, 9, 48, 20, 51,
         49, 10, 46, 25, 31, 43, 47>> >>,
    \* random.seed(47)
    << <<9, 16, 24, 32, 42, 4, 51, 10, 46, 6, 41, 44, 34, 48, 13, 52, 47, 11, 20, 43, 18, 38,
         50, 15, 12, 39, 35, 29, 8, 14, 19, 21, 49, 31, 45, 1, 7, 2, 27, 3, 40, 26, 25, 33,
         17, 22, 37, 30, 36, 28, 5, 23>>,
       <<6, 51, 10, 30, 29, 25, 52, 46, 50, 43, 12, 2, 11, 28, 41, 1, 15, 5, 18, 9, 42, 13, 7,
         21, 4, 34, 47, 33, 32, 24, 38, 40, 26, 20, 49, 3, 37, 35, 44, 17, 36, 16, 19, 23, 39,
         27, 8, 48, 31, 14, 22, 45>>,
       <<49, 6, 27, 29, 33, 11, 40, 10, 20, 8, 36, 30, 18, 52, 5, 22, 51, 3, 47, 25, 45, 1,
         15, 32, 4, 35, 17, 43, 19, 26, 24, 50, 7, 9, 13, 48, 38, 12, 28, 23, 14, 16, 37, 2,
         21, 41, 46, 31, 44, 34, 39, 42>> >>,
    \* random.seed(48)
    << <<12, 50, 40, 44, 25, 17, 26, 24, 43, 29, 48, 47, 51, 38, 23, 8, 4, 19, 42, 34, 18, 2,
         27, 6, 22, 16, 5, 30, 39, 3, 1, 37, 31, 41, 49, 45, 14, 15, 32, 7, 10, 11, 28, 13,
         33, 20, 35, 46, 52, 9, 21, 36>>,
       <<45, 6, 18, 42, 27, 25, 52, 23, 3, 33, 30, 4, 17, 41, 46, 50, 12, 5, 9, 20, 39, 16,
         13, 48, 40, 47, 26, 34, 11, 29, 14, 36, 51, 1, 43, 28, 21, 35, 31, 22, 10, 15, 44, 8,
         32, 38, 49, 37, 19, 7, 24, 2>>,
       <<18, 23, 51, 17, 11, 31, 32, 14, 25, 26, 10, 5, 38, 21, 9, 13, 39, 12, 8, 36, 20, 52,
         27, 49, 35, 16, 43, 44, 15, 48, 4, 45, 33, 29, 6, 24, 22, 47, 40, 2, 7, 41, 3, 19,
         34, 30, 1, 46, 42, 50, 28, 37>> >>,
    \* random.seed(49)
    << <<1, 17, 42, 28, 51, 37, 38, 31, 16, 6, 20, 47, 22, 29, 41, 39, 7, 50, 32, 25, 48, 9,
         12, 11, 13, 40, 14, 45, 52, 34, 49, 2, 26, 24, 19, 15, 46, 35, 43, 30, 10, 18, 3, 44,
         4, 33, 36, 21, 8, 27, 23, 5>>,
       <<33, 22, 37, 41, 30, 40, 50, 17, 12, 31, 44, 19, 38, 43, 8, 26, 47, 34, 11, 15, 9, 39,
         29, 23, 42, 14, 48, 7, 16, 3, 27, 21, 28, 46, 24, 4, 5, 20, 6, 13, 1, 10, 35, 2, 36,
         51, 18, 25, 49, 32, 52, 45>>,
       <<50, 46, 10, 3, 29, 13, 15, 22, 5, 23, 43, 2, 41, 16, 27, 45, 35, 18, 32, 42, 21, 14,
         26, 19, 31, 11, 4, 49, 33, 1, 20, 25, 37, 36, 48, 30, 9, 34, 51, 44, 6, 28, 39, 17,
         38, 12, 8, 47, 40, 7, 52, 24>> >>,
    \* random.seed(50)
    << <<17, 19, 39, 47, 48, 43, 33, 38, 5, 51, 4, 2, 12, 40, 52, 9, 25, 8, 1, 26, 29, 27, 50,
         46, 34, 14, 30, 20, 11, 28, 3, 13, 49, 42, 37, 7, 23, 10, 44, 36, 15, 21, 35, 6, 22,
         31, 45, 16, 41, 24, 18, 32>>,
       <<33, 23, 7, 26, 3, 52, 15, 2, 31, 17, 11, 30, 42, 39, 25, 13, 47, 5, 4, 51, 36, 48,
         18, 21, 16, 14, 22, 19, 29, 50, 12, 1, 10, 38, 24, 6, 20, 43, 37, 49, 9, 46, 34, 28,
         32, 35, 41, 8, 45, 40, 44, 27>>,
       <<40, 42, 11, 47, 36, 28, 17, 15, 13, 38, 18, 27, 16, 9, 25, 19, 12, 52, 46, 48, 44,
         43, 30, 39, 3, 22, 45, 7, 14, 33, 10, 49, 32, 34, 35, 23, 21, 20, 1, 37, 41, 29, 5,
         2, 4, 24, 8, 51, 6, 31, 26, 50>> >>,
    \* random.seed(51)
    << <<29, 49, 19, 5, 4, 27, 13, 45, 3, 21, 40, 28, 14, 42, 32, 41, 23, 31, 7, 47, 37, 10,
         20, 12, 6, 39, 48, 2, 9, 35, 51, 8, 1, 44, 18, 25, 24, 38, 22, 34, 43, 30, 46, 26,
         17, 50, 15, 52, 11, 36, 33, 16>>,
       <<15, 4, 26, 49, 25, 10, 2, 40, 45, 5, 47, 6, 42, 50, 13, 43, 21, 16, 44, 9, 18, 37,
         24, 19, 48, 17, 14, 11, 41, 22, 27, 30, 20, 7, 39, 33, 31, 3, 35, 28, 1, 46, 34, 52,
         51, 29, 23, 38, 12, 36, 32, 8>>,
       <<3, 18, 26, 17, 16, 4, 14, 37, 2, 46, 6, 51, 47, 49, 7, 15, 39, 34, 45, 42, 48, 44,
         24, 13, 22, 40, 9, 23, 32, 21, 43, 25, 31, 35, 29, 19, 38, 33, 52, 5, 27, 11, 1, 30,
         20, 8, 12, 28, 41, 36, 10, 50>> >>,
    \* random.seed(52)
    << <<40, 42, 34, 26, 20, 10, 49, 5, 17, 43, 15, 7, 22, 52, 36, 41, 19, 48, 13, 2, 51, 14,
         50, 28, 44, 21, 8, 32, 30, 6, 37, 16, 38, 39, 25, 35, 45, 1, 29, 23, 12, 46, 11, 9,
         3, 27, 24, 31, 33, 47, 4, 18>>,
       <<44, 16, 21, 22, 4, 38, 40, 52, 18, 10, 49, 3, 37, 32, 51, 46, 45, 35, 26, 29, 27, 36,
         15, 19, 41, 17, 33, 7, 25, 23, 24, 47, 5, 28, 50, 20, 48, 43, 6, 12, 8, 11, 9, 30,
         31, 34, 42, 14, 1, 13, 2, 39>>,
       <<32, 24, 39, 17, 34, 46, 4, 23, 13, 47, 22, 45, 28, 35, 15, 31, 19, 11, 18, 8, 29, 26,
         2, 42, 50, 41, 5, 27, 52, 9, 49, 14, 21, 16, 6, 37, 38, 44, 36, 12, 3, 30, 20, 10, 1,
         43, 33, 25, 40, 51, 48, 7>> >>,
    \* random.seed(53)
    << <<10, 20, 6, 22, 47, 1, 51, 16, 45, 29, 26, 43, 18, 19, 49, 41, 27, 38, 39, 42, 13, 25,
         35, 21, 37, 12, 28, 5, 8, 7, 32, 15, 44, 36, 52, 4, 17, 9, 23, 11, 3, 2, 50, 24, 34,
         48, 31, 46, 33, 30, 14, 40>>,
       <<19, 9, 1, 29, 11, 33, 23, 43, 18, 37, 47, 5, 2, 51, 20, 48, 14, 52, 35, 28, 24, 49,
         30, 42, 40, 8, 39, 46, 32, 34, 41, 22, 13, 12, 50, 27, 25, 45, 16, 17, 21, 36, 26,
         31, 4, 7, 44, 3, 6, 10, 15, 38>>,
       <<50, 5, 52, 33, 10, 34, 4, 8, 48, 40, 38, 13, 31, 51, 30, 2, 3, 44, 43, 41, 47, 42,
         11, 46, 37, 20, 19, 45, 26, 23, 39, 17, 24, 25, 35, 6, 16, 1, 7, 27, 21, 29, 18, 49,
         9, 22, 36, 14, 12, 15, 28, 32>> >>,
    \* random.seed(54)
    << <<10, 16, 27, 8, 49, 34, 41, 48, 7, 11, 3, 33, 17, 26, 28, 23, 12, 1, 39, 2, 42, 45,
         24, 35, 21, 38, 5, 18, 52, 40, 30, 19, 43, 6, 44, 50, 47, 4, 13, 14, 46, 37, 22, 51,
         15, 25, 32, 31, 20, 36, 29, 9>>,
       <<11, 49, 20, 40, 45, 37, 4, 34, 13, 48, 1, 14, 18, 5, 9, 33, 52, 6, 46, 23, 8, 15, 17,
         21, 35, 3, 10, 38, 43, 12, 7, 19, 30, 31, 47, 44, 24, 25, 28, 27, 26, 22, 50, 36, 32,
         42, 2, 39, 41, 51, 16, 29>>,
       <<14, 13, 46, 12, 20, 16, 49, 1, 2, 29, 41, 3, 25, 42, 23, 11, 52, 38, 24, 45, 44, 8,
         6, 5, 50, 51, 47, 31, 26, 15, 4, 34, 19, 33, 40, 18, 43, 27, 9, 39, 17, 30, 22, 36,
         35, 10, 7, 37, 48, 28, 32, 21>> >>,
    \* random.seed(55)
    << <<50, 9, 16, 11, 46, 18, 39, 41, 27, 44, 5, 45, 37, 4, 22, 36, 7, 14, 29, 32, 24, 51,
         2, 30, 15, 19, 1, 43, 38, 8, 42, 34, 17, 3, 28, 21, 26, 33, 40, 25, 35, 31, 23, 47,
         49, 12, 52, 20, 48, 10, 13, 6>>,
       <<51, 38, 35, 25, 32, 2, 1, 24, 21, 8, 13, 19, 37, 46, 28, 33, 50, 18, 44, 22, 39, 23,
         52, 48, 43, 42, 3, 5, 40, 45, 10, 34, 4, 17, 6, 26, 7, 31, 27, 9, 41, 47, 14, 29, 49,
         36, 20, 15, 11, 12, 30, 16>>,
       <<27, 38, 49, 24, 8, 45, 10, 5, 28, 29, 42, 7, 52, 11, 20, 25, 6, 9, 17, 4, 37, 2, 30,
         50, 39, 47, 40, 15, 33, 48, 22, 35, 12, 16, 14, 44, 18, 26, 51, 19, 34, 31, 21, 32,
         13, 43, 46, 23, 3, 1, 41, 36>> >>,
    \* random.seed(56)
    << <<23, 21, 29, 26, 48, 16, 38, 10, 12, 3, 32, 49, 46, 11, 19, 28, 45, 25, 44, 30, 18,
         43, 47, 33, 6, 8, 50, 41, 51, 39, 13, 9, 4, 52, 2, 14, 37, 17, 22, 5, 40, 24, 7, 15,
         27, 35, 20, 34, 42, 31, 1, 36>>,
       <<21, 52, 8, 4, 35, 39, 49, 16, 2, 12, 45, 20, 17, 46, 28, 18, 22, 41, 27, 9, 19, 29,
         10, 48, 47, 5, 15, 23, 26, 11, 6, 14, 3, 42, 30, 33, 13, 43, 31, 51, 25, 32, 40, 7,
         36, 34, 50, 44, 37, 1, 24, 38>>,
       <<47, 22, 24, 38, 1, 16, 6, 18, 29, 43, 45, 12, 15, 26, 52, 46, 21, 7, 8, 13, 30, 25,
         19, 28, 23, 51, 39, 5, 17, 44, 50, 32, 36, 3, 2, 34, 10, 37, 49, 11, 9, 27, 42, 4,
         14, 40, 20, 35, 48, 41, 31, 33>> >>,
    \* random.seed(57)
    << <<1, 22, 29, 49, 8, 52, 42, 12, 4, 50, 30, 47, 16, 46, 10, 6, 17, 14, 35, 23, 44, 13,
         36, 37, 43, 5, 20, 45, 27, 9, 18, 32, 7, 26, 40, 51, 34, 11, 48, 25, 41, 28, 19, 31,
         21, 33, 15, 2, 39, 38, 24, 3>>,
       <<13, 8, 18, 32, 47, 43, 15, 11, 45, 17, 10, 51, 46, 7, 31, 19, 26, 28, 27, 14, 38, 5,
         6, 44, 16, 35, 9, 33, 42, 21, 12, 24, 23, 39, 52, 20, 48, 37, 36, 50, 3, 34, 49, 22,
         40, 4, 25, 2, 29, 30, 41, 1>>,
       <<18, 14, 40, 32, 51, 19, 50, 10, 17, 38, 16, 24, 20, 42, 41, 46, 9, 21, 30, 15, 22, 1,
         28, 31, 47, 4, 23, 5, 13, 26, 8, 34, 33, 27, 39, 25, 49, 52, 45, 44, 6, 48, 35, 29,
         11, 7, 2, 12, 36, 37, 3, 43>> >>,
    \* random.seed(58)
    << <<36, 35, 9, 21, 28, 43, 8, 11, 39, 37, 34, 24, 33, 16, 30, 40, 20, 6, 49, 10, 5, 4, 2,
         12, 52, 45, 22, 18, 15, 46, 25, 31, 50, 32, 1, 7, 41, 27, 44, 17, 19, 23, 26, 29, 47,
         3, 51, 42, 48, 14, 13, 38>>,
       <<40, 35, 48, 27, 25, 45, 34, 21, 4, 42, 1, 24, 52, 12, 32, 5, 36, 37, 23, 29, 11, 10,
         16, 39, 6, 3, 28, 46, 15, 8, 20, 13, 30, 14, 50, 19, 9, 26, 41, 22, 49, 18, 38, 43,
         33, 31, 7, 47, 44, 51, 17, 2>>,
       <<3, 48, 17, 13, 30, 35, 38, 42, 41, 15, 11, 47, 52, 27, 6, 31, 12, 20, 26, 2, 1, 28,
         19, 29, 7, 37, 16, 25, 44, 45, 40, 24, 34, 14, 10, 9, 5, 23, 49, 33, 21, 22, 39, 50,
         43, 18, 46, 36, 51, 32, 4, 8>> >>,
    \* random.seed(59)
    << <<23, 33, 13, 5, 50, 4, 18, 16, 51, 24, 14, 52, 31, 17, 27, 49, 26, 47, 38, 37, 19, 43,
         39, 29, 3, 10, 36, 28, 45, 21, 34, 7, 8, 12, 22, 11, 46, 35, 41, 25, 32, 1, 40, 44,
         48, 20, 9, 2, 30, 42, 6, 15>>,
       <<3, 27, 46, 43, 42, 5, 50, 30, 38, 32, 13, 19, 6, 1, 49, 12, 2, 48, 11, 36, 40, 14,
         45, 52, 28, 31, 21, 8, 7, 18, 16, 37, 10, 23, 17, 24, 51, 29, 25, 47, 41, 4, 9, 39,
         20, 26, 44, 34, 22, 15, 33, 35>>,
       <<40, 52, 16, 17, 25, 9, 26, 37, 13, 41, 39, 18, 36, 46, 49, 30, 2, 44, 28, 8, 1, 12,
         43, 14, 34, 24, 29, 51, 4, 38, 45, 33, 15, 11, 32, 6, 50, 20, 5, 48, 7, 42, 23, 22,
         35, 21, 47, 19, 10, 31, 27, 3>> >>,
    \* random.seed(60)
    << <<8, 50, 47, 7, 38, 42, 34, 41, 28, 13, 33, 14, 29, 45, 24, 36, 35, 40, 4, 23, 39, 2,
         51, 18, 46, 48, 5, 44, 26, 21, 32, 52, 9, 11, 27, 1, 16, 43, 25, 49, 12, 6, 3, 22,
         30, 31, 15, 17, 10, 37, 19, 20>>,
       <<28, 50, 10, 30, 19, 22, 16, 35, 14, 41, 4, 39, 20, 9, 5, 49, 1, 29, 17, 40, 15, 31,
         26, 11, 52, 27, 23, 18, 13, 47, 46, 43, 48, 45, 12, 37, 44, 36, 2, 3, 7, 51, 34, 6,
         25, 24, 32, 21, 33, 8, 42, 38>>,
       <<45, 39, 31, 46, 2, 23, 20, 19, 29, 4, 36, 52, 26, 33, 13, 30, 48, 17, 6, 21, 18, 28,
         42, 10, 8, 51, 11, 25, 34, 40, 43, 35, 50, 16, 22, 49, 1, 37, 15, 9, 32, 27, 24, 12,
         5, 14, 44, 47, 41, 38, 3, 7>> >>,
    \* random.seed(61)
    << <<9, 16, 47, 8, 27, 28, 44, 3, 4, 18, 7, 24, 31, 17, 41, 38, 51, 20, 15, 29, 35, 10,
         13, 25, 40, 39, 49, 34, 50, 43, 46, 6, 33, 1, 37, 11, 22, 30, 26, 5, 42, 23, 52, 2,
         45, 48, 19, 21, 14, 36, 12, 32>>,
       <<44, 52, 15, 19, 17, 24, 50, 51, 2, 11, 39, 9, 33, 29, 49, 34, 31, 46, 48, 40, 38, 27,
         37, 10, 22, 4, 16, 13, 36, 42, 45, 41, 47, 18, 32, 3, 21, 43, 8, 14, 26, 5, 23, 30,
         7, 12, 28, 1, 20, 6, 25, 35>>,
       <<24, 18, 52, 40, 33, 1, 44, 2, 36, 8, 13, 25, 15, 28, 46, 35, 39, 6, 22, 4, 38, 23,
         31, 49, 20, 3, 9, 19, 41, 34, 29, 43, 10, 45, 51, 11, 7, 12, 50, 47, 5, 32, 21, 27,
         30, 37, 17, 14, 42, 16, 26, 48>> >>,
    \* random.seed(62)
    << <<14, 9, 32, 46, 24, 49, 29, 4, 26, 39, 42, 50, 47, 52, 28, 25, 10, 13, 40, 48, 15, 18,
         38, 3, 27, 7, 45, 6, 21, 19, 34, 22, 36, 35, 31, 2, 8, 41, 17, 1, 44, 51, 33, 11, 23,
         43, 20, 30, 16, 5, 12, 37>>,
       <<30, 34, 33, 39, 27, 19, 35, 45, 5, 2, 44, 51, 14, 41, 6, 31, 40, 8, 23, 15, 21, 28,
         4, 3, 17, 18, 12, 48, 46, 50, 36, 25, 26, 47, 22, 11, 43, 49, 20, 32, 29, 24, 42, 7,
         9, 16, 10, 1, 13, 38, 52, 37>>,
       <<31, 13, 34, 21, 18, 48, 19, 14, 40, 15, 47, 50, 24, 7, 12, 33, 44, 52, 29, 49, 2, 38,
         8, 20, 28, 45, 35, 10, 43, 6, 1, 39, 9, 23, 32, 27, 22, 46, 3, 36, 42, 11, 37, 16,
         25, 51, 17, 41, 30, 5, 26, 4>> >>,
    \* random.seed(63)
    << <<36, 40, 11, 45, 24, 49, 27, 42, 3, 37, 41, 21, 10, 26, 1, 48, 38, 7, 34, 12, 35, 14,
         33, 28, 8, 44, 23, 39, 51, 30, 32, 2, 18, 16, 22, 9, 15, 4, 20, 47, 50, 13, 5, 46,
         25, 6, 43, 31, 17, 19, 52, 29>>,
       <<40, 42, 50, 49, 6, 8, 9, 19, 21, 45, 39, 7, 47, 1, 34, 31, 2, 32, 20, 29, 12, 38, 41,
         51, 16, 10, 43, 18, 22, 36, 25, 26, 14, 52, 3, 11, 30, 27, 37, 15, 33, 13, 48, 46,
         44, 35, 17, 5, 28, 23, 4, 24>>,
       <<44, 37, 45, 20, 50, 4, 33, 16, 36, 7, 29, 22, 8, 13, 47, 25, 9, 30, 2, 48, 49, 42,
         10, 14, 21, 52, 18, 19, 34, 27, 32, 12, 17, 39, 51, 11, 28, 24, 43, 40, 5, 6, 31, 26,
         41, 35, 1, 46, 38, 23, 15, 3>> >>,
    \* random.seed(64)
    << <<23, 11, 25, 33, 28, 17, 49, 22, 46, 37, 16, 24, 20, 12, 5, 21, 36, 15, 32, 52, 7, 43,
         51, 9, 38, 47, 19, 4, 34, 3, 30, 1, 48, 39, 45, 42, 29, 27, 6, 10, 13, 50, 18, 14, 2,
         44, 35, 26, 40, 41, 8, 31>>,
       <<39, 35, 22, 27, 31, 33, 13, 1, 40, 7, 38, 25, 32, 3, 44, 19, 45, 47, 21, 24, 46, 29,
         26, 5, 9, 6, 12, 23, 34, 37, 51, 28, 17, 10, 36, 43, 48, 41, 50, 8, 20, 2, 16, 49,
         18, 42, 4, 52, 14, 11, 30, 15>>,
       <<31, 37, 4, 18, 5, 48, 28, 36, 46, 41, 29, 2, 43, 12, 30, 14, 34, 39, 51, 32, 3, 15,
         19, 38, 16, 8, 23, 17, 52, 6, 13, 11, 45, 35, 1, 27, 21, 42, 24, 25, 26, 9, 50, 40,
         20, 22, 33, 7, 47, 49, 10, 44>> >>,
    \* random.seed(65)
    << <<14, 52, 49, 2, 10, 7, 11, 23, 44, 16, 32, 20, 1, 39, 40, 45, 18, 8, 21, 50, 25, 12,
         26, 37, 42, 38, 24, 35, 6, 4, 9, 3, 31, 13, 17, 46, 43, 5, 48, 28, 41, 22, 36, 47,
         34, 30, 29, 15, 33, 51, 19, 27>>,
       <<32, 45, 2, 25, 39, 4, 51, 8, 26, 46, 7, 50, 40, 47, 18, 30, 48, 41, 19, 14, 43, 29,
         33, 52, 6, 38, 31, 42, 3, 22, 10, 49, 24, 13, 23, 20, 16, 15, 21, 27, 34, 9, 44, 28,
         35, 37, 11, 12, 1, 36, 17, 5>>,
       <<30, 13, 11, 1, 28, 49, 47, 27, 40, 29, 7, 52, 24, 15, 4, 8, 25, 44, 18, 42, 41, 21,
         37, 48, 43, 22, 32, 33, 50, 38, 5, 26, 20, 16, 19, 51, 9, 14, 17, 45, 3, 35, 23, 34,
         12, 6, 2, 36, 46, 31, 39, 10>> >>,
    \* random.seed(66)
    << <<8, 14, 31, 39, 26, 37, 3, 50, 47, 18, 6, 21, 43, 48, 40, 10, 49, 45, 22, 51, 15, 44,
         23, 25, 1, 42, 38, 13, 35, 4, 46, 2, 33, 41, 27, 11, 24, 52, 9, 34, 30, 12, 32, 7,
         36, 17, 19, 29, 16, 28, 20, 5>>,
       <<34, 8, 3, 45, 5, 9, 30, 49, 44, 25, 52, 22, 13, 37, 32, 18, 48, 46, 40, 6, 17, 33, 2,
         47, 15, 38, 19, 11, 29, 16, 10, 35, 20, 41, 1, 12, 14, 43, 24, 51, 21, 28, 50, 7, 36,
         26, 42, 4, 27, 39, 31, 23>>,
       <<47, 46, 51, 40, 11, 17, 18, 16, 26, 42, 19, 10, 2, 1, 21, 34, 8, 41, 52, 22, 13, 38,
         44, 3, 29, 30, 43, 23, 33, 9, 27, 48, 14, 24, 31, 49, 12, 6, 32, 4, 5, 15, 39, 37,
         25, 45, 20, 50, 36, 7, 28, 35>> >> >>

\* The smallest seed whose first shuffle makes the 15-player table ask for a
\* 53rd card.
TableSeed == 1067923

\* The first three shuffles after random.seed(TableSeed).
TableShuffleOutcomes ==
    << <<44, 48, 14, 29, 5, 12, 26, 3, 16, 23, 2, 24, 6, 34, 9, 18, 4, 41, 21, 7, 31, 17, 19,
         38, 15, 13, 32, 11, 33, 36, 20, 25, 40, 49, 22, 51, 45, 1, 37, 46, 28, 27, 8, 43, 52,
         39, 35, 10, 30, 50, 42, 47>>,
       <<21, 13, 19, 37, 2, 30, 1, 6, 26, 28, 20, 47, 29, 41, 17, 43, 45, 15, 9, 35, 12, 40,
         3, 31, 7, 18, 8, 44, 48, 25, 22, 4, 23, 16, 49, 46, 36, 51, 42, 39, 11, 24, 14, 10,
         38, 32, 52, 34, 50, 33, 27, 5>>,
       <<20, 4, 16, 40, 6, 21, 33, 31, 11, 27, 49, 39, 5, 47, 12, 46, 43, 34, 41, 26, 14, 29,
         25, 9, 7, 15, 52, 38, 32, 19, 13, 18, 24, 36, 44, 10, 48, 30, 45, 28, 2, 8, 50, 35,
         51, 3, 22, 17, 37, 42, 23, 1>> >>


\* random.seed(a): the generator state, as the seed and the calls of
\* random.shuffle and random.randint made since.
random_seed(a) == [seed |-> a, shuffles |-> 0, randints |-> 0]

\* The permutation the next random.shuffle of 52 elements applies in state r
\* (no randint has been called: every seat bets flat).
permutation(r) ==
    IF r.seed = TableSeed
    THEN TableShuffleOutcomes[r.shuffles + 1]
    ELSE ShuffleOutcomes[r.seed + 1][r.shuffles + 1]

\* Mutant of shuffle: the card that comes out on top is also second.
shuffle_top_twice(cards, r) ==
    [j \in 1..Len(cards) |-> cards[permutation(r)[IF j = 2 THEN 1 ELSE j]]]

\* Deck.shuffle: random.shuffle(self.cards) under the generator state r.
shuffle(cards, r) == [j \in 1..Len(cards) |-> cards[permutation(r)[j]]]

\* Hand.__init__ and Hand.clear: no cards, CLOSED.
Hand == [cards |-> <<>>, state |-> "CLOSED"]

(***************************************************************************)
(* ChineseBlackjackRuleset                                                 *)
(***************************************************************************)
\* int(card.value.name) for the numeric ranks.
int(name) ==
    CASE name = "2" -> 2 [] name = "3" -> 3 [] name = "4" -> 4
      [] name = "5" -> 5 [] name = "6" -> 6 [] name = "7" -> 7
      [] name = "8" -> 8 [] name = "9" -> 9 [] name = "10" -> 10

\* Mutant of ace_value: an Ace of a three-card hand always counts 1.
ace_value_low(n, value) == IF n <= 2 THEN 11 ELSE 1

\* What an Ace adds in one step of hand_value's loop: n is len(hand), value
\* the running total so far.
ace_value(n, value) ==
    IF n <= 2 THEN 11
    ELSE IF n = 3 THEN (IF (value + 10) < 21 THEN 10 ELSE 1)
    ELSE 1

\* One iteration of the loop of hand_value.
card_value(card, n, value) ==
    IF card.value \in {"J", "Q", "K"} THEN 10
    ELSE IF card.value = "A" THEN ace_value(n, value)
    ELSE int(card.value)

RECURSIVE hand_value_loop(_, _, _)
hand_value_loop(cards, k, value) ==
    IF k > Len(cards) THEN value
    ELSE hand_value_loop(cards, k + 1, value + card_value(cards[k], Len(cards), value))

hand_value(hand) == hand_value_loop(hand.cards, 1, 0)

\* `hand.cards[0].value in ['8', '9', '10', 'J', 'Q', 'K']`: Card.Value is a
\* plain Enum, and a member of it never compares equal to a str.
enum_in_strs(member, strs) == \E s \in strs : FALSE

\* Mutant of payout_multiplier: two Aces pay 3 whatever hand_value says.
payout_multiplier_two_aces(hand) ==
    IF Len(hand.cards) = 5
    THEN (IF hand_value(hand) = 21 THEN 3 ELSE 2)
    ELSE IF Len(hand.cards) = 2 /\ \A k \in 1..Len(hand.cards) : hand.cards[k].value = "A"
    THEN 3
    ELSE IF hand_value(hand) = 21
    THEN 2
    ELSE 1

payout_multiplier(hand) ==
    IF Len(hand.cards) = 5
    THEN (IF hand_value(hand) = 21 THEN 3 ELSE 2)
    ELSE IF hand_value(hand) = 21
    THEN (IF Len(hand.cards) = 2 /\ \A k \in 1..Len(hand.cards) : hand.cards[k].value = "A"
          THEN 3 ELSE 2)
    ELSE IF /\ Len(hand.cards) = 2
            /\ hand.cards[1].value = hand.cards[2].value
            /\ enum_in_strs(hand.cards[1].value, {"8", "9", "10", "J", "Q", "K"})
    THEN 2
    ELSE 1

(***************************************************************************)
(* Strategies                                                              *)
(***************************************************************************)
RandomBettingStrategy(a, b) == [kind |-> "Random", a |-> a, b |-> b]
FlatBettingStrategy(flat_bet) == [kind |-> "Flat", flat_bet |-> flat_bet]

\* Mutant of place_bet: the bet is not clamped to the bankroll.
place_bet_unclamped(strat, bankroll) ==
    IF strat.kind = "Random" THEN strat.a..strat.b ELSE {strat.flat_bet}

\* place_bet of both betting strategies: the set of bets it can return
\* (randint(a, b) is any integer of a..b, whatever the generator state; no
\* integer when a > b, where randint raises ValueError).
place_bet(strat, bankroll) ==
    IF strat.kind = "Random"
    THEN {Min(bankroll, r) : r \in strat.a..strat.b}
    ELSE {Min(bankroll, strat.flat_bet)}

\* RegularPlayerStrategy.determine_action
RegularPlayerStrategy(hand) ==
    IF hand_value(hand) = 15 /\ Len(hand.cards) = 2 THEN "RUN"
    ELSE IF hand_value(hand) < 16 THEN "HIT"
    ELSE "STAND"

\* Player.get_curr_hand_info for every player of the game: the state, and the
\* hand when OPEN or its card count when CLOSED.
players_hand_info(ids) ==
    [k \in DOMAIN ids |->
        IF player[ids[k]].hand.state = "OPEN"
        THEN <<"OPEN", player[ids[k]].hand>>
        ELSE <<"CLOSED", Len(player[ids[k]].hand.cards)>>]

\* Mutant of RegularDealerStrategy: resolves the last CLOSED hand first.
RegularDealerStrategy_descending(hand, player_info) ==
    IF hand_value(hand) < 16 THEN <<"HIT", None>>
    ELSE IF \E k \in DOMAIN player_info : player_info[k][1] = "CLOSED"
    THEN <<"RESOLVE",
           CHOOSE k \in DOMAIN player_info :
              /\ player_info[k][1] = "CLOSED"
              /\ \A j \in DOMAIN player_info : player_info[j][1] = "CLOSED" => k >= j>>
    ELSE None

\* RegularDealerStrategy.determine_action: <<action, target index>>; falls off
\* the end (returns None) when it neither hits nor finds a CLOSED hand.
RegularDealerStrategy(hand, player_info) ==
    IF hand_value(hand) < 16 THEN <<"HIT", None>>
    ELSE IF \E k \in DOMAIN player_info : player_info[k][1] = "CLOSED"
    THEN <<"RESOLVE",
           CHOOSE k \in DOMAIN player_info :
              /\ player_info[k][1] = "CLOSED"
              /\ \A j \in DOMAIN player_info : player_info[j][1] = "CLOSED" => k <= j>>
    ELSE None

(***************************************************************************)
(* History records.  `hand` is a reference to the participant's Hand       *)
(* object (the player's iden 1, 2, ..., or DealerRef): the record holds    *)
(* the object, not a copy of its cards.                                    *)
(***************************************************************************)
DealerRef == 0

PlayerHistory(win, hand, bet, new_bankroll, profit) ==
    [win |-> win, hand |-> hand, bet |-> bet, new_bankroll |-> new_bankroll,
     profit |-> profit]

DealerHistory(hand, no_win, no_lose, no_draw, new_bankroll, profit) ==
    [hand |-> hand, round_wins |-> no_win, round_losses |-> no_lose,
     round_draws |-> no_draw, new_bankroll |-> new_bankroll, profit |-> profit]

\* The Hand object a history record refers to, as it is now.
deref(ref) == IF ref = DealerRef THEN dealer.hand ELSE player[ref].hand

(***************************************************************************)
(* Player and Dealer                                                       *)
(***************************************************************************)
\* Player.__init__ (on GamePlayer.__init__)
Player(iden, initial_bankroll, betting_strat) ==
    [iden |-> iden, bankroll |-> initial_bankroll, games_played |-> 0,
     curr_bet |-> 0, history |-> <<>>, betting_strat |-> betting_strat,
     hand |-> Hand, bust |-> FALSE]

\* Dealer.__init__ (on GamePlayer.__init__).  wins, losses and draws are the
\* attributes Dealer.reset creates; None until then.
Dealer(initial_bankroll) ==
    [bankroll |-> initial_bankroll, games_played |-> 0,
     round_wins |-> 0, round_losses |-> 0, round_draws |-> 0, round_profit |-> 0,
     history |-> <<>>, hand |-> Hand, bust |-> FALSE,
     wins |-> None, losses |-> None, draws |-> None]

\* Player.reset
player_reset(p) == [p EXCEPT !.hand = Hand, !.bust = FALSE]

\* Dealer.reset
dealer_reset(d) ==
    [d EXCEPT !.hand = Hand, !.wins = 0, !.losses = 0, !.draws = 0,
              !.round_profit = 0, !.bust = FALSE]

\* Hand.draw_one followed by the bust test of a HIT (Player.action, Dealer.action).
hit(who, card) ==
    LET drawn == [who.hand EXCEPT !.cards = Append(@, card)]
    IN  [who EXCEPT !.hand = drawn,
                    !.bust = IF hand_value(drawn) > 21 THEN TRUE ELSE @]

\* Mutant of run: the runner forfeits the bet.
run_forfeit(p) ==
    [p EXCEPT !.hand.state = "OPEN",
              !.bankroll = @ - p.curr_bet,
              !.history = Append(@, PlayerHistory(None, p.iden, p.curr_bet,
                                                  p.bankroll - p.curr_bet, 0))]

\* Mutant of run: the hand is opened but no History entry is appended.
run_unrecorded(p) == [p EXCEPT !.hand.state = "OPEN"]

\* Player.action(RUN)
run(p) ==
    [p EXCEPT !.hand.state = "OPEN",
              !.history = Append(@, PlayerHistory(None, p.iden, p.curr_bet, p.bankroll, 0))]

\* Mutant of dealer_win: the dealer also wins a tie.
dealer_win_ties(d, t) ==
    IF \/ (hand_value(d.hand) >= hand_value(t.hand) /\ d.bust = FALSE)
       \/ (t.bust = TRUE /\ d.bust = FALSE)
    THEN True
    ELSE IF \/ (hand_value(t.hand) > hand_value(d.hand) /\ t.bust = FALSE)
            \/ (d.bust = TRUE /\ t.bust = FALSE)
    THEN False
    ELSE None

\* Dealer.action(RESOLVE): dealer_win is True, False or None (push).
dealer_win(d, t) ==
    LET dealer_hand_value == hand_value(d.hand)
        player_hand_value == hand_value(t.hand)
    IN  IF \/ (dealer_hand_value > player_hand_value /\ d.bust = FALSE)
           \/ (t.bust = TRUE /\ d.bust = FALSE)
        THEN True
        ELSE IF \/ (player_hand_value > dealer_hand_value /\ t.bust = FALSE)
                \/ (d.bust = TRUE /\ t.bust = FALSE)
        THEN False
        ELSE None

\* winnings of a RESOLVE: 0 on a push.
winnings(d, t) ==
    IF dealer_win(d, t) = True THEN payout_multiplier(d.hand) * t.curr_bet
    ELSE IF dealer_win(d, t) = False THEN payout_multiplier(t.hand) * t.curr_bet
    ELSE 0

\* The dealer after Dealer.action(RESOLVE, t).
resolve_dealer(d, t) ==
    IF dealer_win(d, t) = True
    THEN [d EXCEPT !.bankroll = @ + winnings(d, t),
                   !.round_profit = @ + winnings(d, t),
                   !.round_wins = @ + 1]
    ELSE IF dealer_win(d, t) = False
    THEN [d EXCEPT !.bankroll = @ - winnings(d, t),
                   !.round_losses = @ + 1,
                   !.round_profit = @ - winnings(d, t)]
    ELSE [d EXCEPT !.round_draws = @ + 1]

\* Mutant of resolve_bankroll: a losing player is not debited.
resolve_bankroll_undebited(d, t) ==
    IF dealer_win(d, t) = False THEN t.bankroll + winnings(d, t) ELSE t.bankroll

\* The target player's bankroll after Dealer.action(RESOLVE, t).
resolve_bankroll(d, t) ==
    IF dealer_win(d, t) = True THEN t.bankroll - winnings(d, t)
    ELSE IF dealer_win(d, t) = False THEN t.bankroll + winnings(d, t)
    ELSE t.bankroll

\* The target player after Dealer.action(RESOLVE, t).
resolve_player(d, t) ==
    LET new_bankroll == resolve_bankroll(d, t)
    IN  [t EXCEPT !.bankroll = new_bankroll,
                  !.history = Append(@, PlayerHistory(
                                  PyNot(dealer_win(d, t)), t.iden, t.curr_bet, new_bankroll,
                                  winnings(d, t) * (IF dealer_win(d, t) = True THEN -1 ELSE 1))),
                  !.hand.state = "OPEN"]

(***************************************************************************)
(* Session and Game                                                        *)
(***************************************************************************)
\* The betting strategy of the player in seat k: `Player(i + 1, inf, flat_bs, ps)`
\* seats the flat strategy everywhere; rand_bs is built and never seated.
seat_strategy(k) == FlatBettingStrategy(FlatBet)

NoGame == [players |-> <<>>, deck |-> <<>>, p |-> 0, pass |-> 0]

\* Session.__init__ over freshly constructed players and dealer.
Init ==
    /\ \E n \in 0..MaxPlayers, no_games \in 1..MaxGames, seed \in 0..MaxSeed :
          /\ random = random_seed(seed)
          /\ player = [k \in 1..n |-> Player(k, InitialBankroll, seat_strategy(k))]
          /\ session = [no_games |-> no_games, games_played |-> 0,
                        players |-> [k \in 1..n |-> k], i |-> 0]
    /\ dealer = Dealer(DealerBankroll)
    /\ game = NoGame
    /\ pc = "simulate"

\* Session.simulate, loop head: Game.__init__ builds and shuffles a new deck.
GameInit ==
    /\ pc = "simulate"
    /\ session.i < session.no_games
    /\ game' = [players |-> session.players, deck |-> shuffle(Deck, random),
                p |-> 0, pass |-> 0]
    /\ random' = [random EXCEPT !.shuffles = @ + 1]
    /\ pc' = "play"
    /\ UNCHANGED <<session, player, dealer>>

\* Game.play, the games_played counters.
GamePlay ==
    /\ pc = "play"
    /\ player' = [k \in DOMAIN player |->
                    IF k \in Range(game.players)
                    THEN [player[k] EXCEPT !.games_played = @ + 1]
                    ELSE player[k]]
    /\ dealer' = [dealer EXCEPT !.games_played = @ + 1]
    /\ game' = [game EXCEPT !.p = 1]
    /\ pc' = "player_bets"
    /\ UNCHANGED <<session, random>>

\* Deck.draw on an empty deque raises IndexError, which nothing catches.
DrawFails == game.deck = <<>>

\* Player.bet on a RandomBettingStrategy(a, b) with a > b: random.randint(a, b)
\* raises ValueError (empty range), which nothing catches.
BetFails(strat) == strat.kind = "Random" /\ strat.a > strat.b

\* The generator after place_bet: RandomBettingStrategy has called randint.
bet_placed(r, strat) ==
    IF strat.kind = "Random" THEN [r EXCEPT !.randints = @ + 1] ELSE r

\* Mutant of Raise: the failure is swallowed and the session goes on with the
\* next round.
Raise_swallowed == pc' = "played" /\ UNCHANGED <<session, player, dealer, game, random>>

\* The exception leaves the failing call (nothing is appended or assigned),
\* Game.play and Session.simulate: the session is over and every object is as
\* it was.
Raise == pc' = "raised" /\ UNCHANGED <<session, player, dealer, game, random>>

\* Game._player_bets, one iteration: Player.bet.
PlayerBet ==
    /\ pc = "player_bets"
    /\ game.p <= Len(game.players)
    /\ \E id \in {game.players[game.p]} :
          IF BetFails(player[id].betting_strat)
          THEN Raise
          ELSE /\ \E bet \in place_bet(player[id].betting_strat, player[id].bankroll) :
                     player' = [player EXCEPT ![id].curr_bet = bet]
               /\ random' = bet_placed(random, player[id].betting_strat)
               /\ game' = [game EXCEPT !.p = @ + 1]
               /\ UNCHANGED <<session, dealer, pc>>

\* Game._player_bets returns; Game._deal_hands begins.
PlayerBetsDone ==
    /\ pc = "player_bets"
    /\ game.p > Len(game.players)
    /\ game' = [game EXCEPT !.p = 1, !.pass = 1]
    /\ pc' = "deal_hands"
    /\ UNCHANGED <<session, player, dealer, random>>

\* Game._deal_hands, inner loop: p.hand.draw_one(self.deck).
DealPlayer ==
    /\ pc = "deal_hands"
    /\ game.p <= Len(game.players)
    /\ IF DrawFails
       THEN Raise
       ELSE /\ LET id == game.players[game.p]
               IN  player' = [player EXCEPT ![id].hand.cards = Append(@, Head(game.deck))]
            /\ game' = [game EXCEPT !.deck = Tail(@), !.p = @ + 1]
            /\ UNCHANGED <<session, dealer, pc, random>>

\* Game._deal_hands, end of a pass: self.dealer.hand.draw_one(self.deck).
DealDealer ==
    /\ pc = "deal_hands"
    /\ game.p > Len(game.players)
    /\ IF DrawFails
       THEN Raise
       ELSE /\ dealer' = [dealer EXCEPT !.hand.cards = Append(@, Head(game.deck))]
            /\ game' = [game EXCEPT !.deck = Tail(@), !.p = 1, !.pass = @ + 1]
            /\ pc' = IF game.pass = 2 THEN "player_turn" ELSE "deal_hands"
            /\ UNCHANGED <<session, player, random>>

\* Game._player_turn, one decision of player p: RUN.
PlayerRun ==
    /\ pc = "player_turn"
    /\ game.p <= Len(game.players)
    /\ LET id == game.players[game.p]
       IN  /\ RegularPlayerStrategy(player[id].hand) = "RUN"
           /\ player' = [player EXCEPT ![id] = run(@)]
    /\ game' = [game EXCEPT !.p = @ + 1]
    /\ UNCHANGED <<session, dealer, pc, random>>

\* Game._player_turn, one decision of player p: HIT.
PlayerHit ==
    /\ pc = "player_turn"
    /\ game.p <= Len(game.players)
    /\ LET id == game.players[game.p]
       IN  /\ RegularPlayerStrategy(player[id].hand) = "HIT"
           /\ IF DrawFails
              THEN Raise
              ELSE /\ player' = [player EXCEPT ![id] = hit(@, Head(game.deck))]
                   /\ game' = [game EXCEPT !.deck = Tail(@)]
                   /\ UNCHANGED <<session, dealer, pc, random>>

\* Mutant of PlayerStand: the STAND does not leave the player's while loop.
PlayerStand_no_break ==
    /\ pc = "player_turn"
    /\ game.p <= Len(game.players)
    /\ LET id == game.players[game.p]
       IN  RegularPlayerStrategy(player[id].hand) = "STAND"
    /\ UNCHANGED <<session, player, dealer, game, pc, random>>

\* Game._player_turn, one decision of player p: STAND.
PlayerStand ==
    /\ pc = "player_turn"
    /\ game.p <= Len(game.players)
    /\ LET id == game.players[game.p]
       IN  RegularPlayerStrategy(player[id].hand) = "STAND"
    /\ game' = [game EXCEPT !.p = @ + 1]
    /\ UNCHANGED <<session, player, dealer, pc, random>>

\* Mutant of PlayerTurnDone: the loop over the players stops one player short.
PlayerTurnDone_early ==
    /\ pc = "player_turn"
    /\ game.p >= Len(game.players)
    /\ pc' = "dealer_turn"
    /\ UNCHANGED <<session, player, dealer, game, random>>

\* Game._player_turn returns; Game._dealer_turn begins.
PlayerTurnDone ==
    /\ pc = "player_turn"
    /\ game.p > Len(game.players)
    /\ pc' = "dealer_turn"
    /\ UNCHANGED <<session, player, dealer, game, random>>

\* The condition of the while loop of Game._dealer_turn.
any_closed == \E k \in DOMAIN game.players : players_hand_info(game.players)[k][1] = "CLOSED"

\* What Dealer.decide returns in the current state.
dealer_decision == RegularDealerStrategy(dealer.hand, players_hand_info(game.players))

\* Game._dealer_turn, one iteration: Dealer.action(HIT).
DealerHit ==
    /\ pc = "dealer_turn"
    /\ any_closed
    /\ dealer_decision[1] = "HIT"
    /\ IF DrawFails
       THEN Raise
       ELSE /\ dealer' = hit(dealer, Head(game.deck))
            /\ game' = [game EXCEPT !.deck = Tail(@)]
            /\ UNCHANGED <<session, player, pc, random>>

\* Game._dealer_turn, one iteration: Dealer.action(RESOLVE, target_player).
DealerResolve ==
    /\ pc = "dealer_turn"
    /\ any_closed
    /\ \E decision \in {dealer_decision} :
          /\ decision[1] = "RESOLVE"
          /\ \E id \in {game.players[decision[2]]} :
                /\ dealer' = resolve_dealer(dealer, player[id])
                /\ player' = [player EXCEPT ![id] = resolve_player(dealer, player[id])]
    /\ UNCHANGED <<session, game, pc, random>>

\* Game._dealer_turn, after the loop: the dealer's history record of the round.
DealerTurnDone ==
    /\ pc = "dealer_turn"
    /\ ~any_closed
    /\ dealer' = [dealer EXCEPT !.history =
                     Append(@, DealerHistory(DealerRef, dealer.round_wins, dealer.round_losses,
                                             dealer.round_draws, dealer.bankroll,
                                             dealer.round_profit))]
    /\ pc' = "clear"
    /\ UNCHANGED <<session, player, game, random>>

\* Game._clear
GameClear ==
    /\ pc = "clear"
    /\ player' = [k \in DOMAIN player |->
                    IF k \in Range(game.players) THEN player_reset(player[k]) ELSE player[k]]
    /\ dealer' = dealer_reset(dealer)
    /\ pc' = "played"
    /\ UNCHANGED <<session, game, random>>

\* Mutant of remaining: a player with bankroll 0 stays.
remaining_at_zero(ids) == SelectSeq(ids, LAMBDA id : player[id].bankroll >= 0)

\* `[p for p in self.players if p.bankroll > 0]`
remaining(ids) == SelectSeq(ids, LAMBDA id : player[id].bankroll > 0)

\* Mutant of dealer_out: a dealer with bankroll 0 ends the session.
dealer_out_at_zero == dealer.bankroll <= 0

\* `if self.dealer.bankroll < 0: return`
dealer_out == dealer.bankroll < 0

\* Session.simulate, the rest of the loop body after game.play().
SessionAfterGame ==
    /\ pc = "played"
    /\ session' = [session EXCEPT !.games_played = @ + 1,
                                  !.players = remaining(session.players),
                                  !.i = @ + 1]
    /\ game' = NoGame
    /\ pc' = IF dealer_out THEN "done" ELSE "simulate"
    /\ UNCHANGED <<player, dealer, random>>

\* Session.simulate, the for loop is exhausted.
SessionDone ==
    /\ pc = "simulate"
    /\ session.i >= session.no_games
    /\ pc' = "done"
    /\ UNCHANGED <<session, player, dealer, game, random>>

Next ==
    \/ GameInit
    \/ GamePlay
    \/ PlayerBet
    \/ PlayerBetsDone
    \/ DealPlayer
    \/ DealDealer
    \/ PlayerRun
    \/ PlayerHit
    \/ PlayerStand
    \/ PlayerTurnDone
    \/ DealerHit
    \/ DealerResolve
    \/ DealerTurnDone
    \/ GameClear
    \/ SessionAfterGame
    \/ SessionDone

Spec == Init /\ [][Next]_vars

\* `for player_count in range(1, 16)`: the largest table of the experiment.
TablePlayers == 15

\* The session of the experiment at its largest table: every player bets flat.
InitTable ==
    /\ \E no_games \in 1..MaxGames, seed \in (0..MaxSeed) \cup {TableSeed} :
          /\ random = random_seed(seed)
          /\ session = [no_games |-> no_games, games_played |-> 0,
                        players |-> [k \in 1..TablePlayers |-> k], i |-> 0]
    /\ player = [k \in 1..TablePlayers |->
                    Player(k, InitialBankroll, FlatBettingStrategy(FlatBet))]
    /\ dealer = Dealer(DealerBankroll)
    /\ game = NoGame
    /\ pc = "simulate"

TableSpec == InitTable /\ [][Next]_vars

\* The interpreter keeps running the program: a step that can be taken is taken.
FairTableSpec == TableSpec /\ WF_vars(Next)

(***************************************************************************)
(* The ruleset on every hand.  One player sits at the table and receives,   *)
(* card by card, whatever a shuffle can bring: any rank still in the deck.  *)
(* A bust hand is not hit again (no strategy hits at 16 or more).           *)
(***************************************************************************)
\* Longest hand the ruleset is applied to.
MaxHandCards == 5

InitRuleset ==
    /\ session = [no_games |-> 1, games_played |-> 0, players |-> <<1>>, i |-> 0]
    /\ player = <<Player(1, InitialBankroll, FlatBettingStrategy(FlatBet))>>
    /\ dealer = Dealer(DealerBankroll)
    /\ game = [players |-> <<1>>, deck |-> Deck, p |-> 1, pass |-> 1]
    /\ random = random_seed(0)
    /\ pc = "ruleset"

\* Hand.draw_one / Player.action HIT on a deck whose top card has rank v
DrawRank ==
    /\ pc = "ruleset"
    /\ Len(player[1].hand.cards) < MaxHandCards
    /\ hand_value(player[1].hand) <= 21
    /\ \E v \in Range(Value), k \in 1..Len(game.deck) :
         /\ game.deck[k].value = v
         /\ \A i \in 1..(k - 1) : game.deck[i].value # v
         /\ \E card \in {game.deck[k]} :
               /\ player' = [player EXCEPT ![1] = hit(@, card)]
               /\ game' = [game EXCEPT !.deck = SelectSeq(@, LAMBDA c : c # card)]
    /\ UNCHANGED <<session, dealer, pc, random>>

\* Player.reset and a fresh Deck
ClearHand ==
    /\ pc = "ruleset"
    /\ Len(player[1].hand.cards) >= 2
    /\ player' = [player EXCEPT ![1] = player_reset(@)]
    /\ game' = [game EXCEPT !.deck = Deck]
    /\ UNCHANGED <<session, dealer, pc, random>>

NextRuleset == DrawRank \/ ClearHand

RulesetSpec == InitRuleset /\ [][NextRuleset]_vars

(***************************************************************************)
(* The betting strategies on every configuration: one player with some     *)
(* bankroll and a flat or a random-range strategy places a bet.            *)
(***************************************************************************)
\* No player places a bet holding more: a round pays at most 3 times the bet
\* (payout_multiplier), a bet is at most FlatBet, and Dealer.action pays
\* whatever the dealer holds.
MaxBankroll == InitialBankroll + 3 * FlatBet * (MaxGames - 1)

BettingStrategies ==
    {FlatBettingStrategy(f) : f \in 1..FlatBet}
        \cup {RandomBettingStrategy(a, b) : a \in RandLo..RandHi, b \in RandLo..RandHi}

InitBetting ==
    /\ \E bankroll \in 0..MaxBankroll, strat \in BettingStrategies :
          /\ player = <<Player(1, bankroll, strat)>>
    /\ session = [no_games |-> 1, games_played |-> 0, players |-> <<1>>, i |-> 0]
    /\ dealer = Dealer(DealerBankroll)
    /\ game = [players |-> <<1>>, deck |-> Deck, p |-> 1, pass |-> 0]
    /\ random = random_seed(0)
    /\ pc = "player_bets"

\* Player.bet
Bet ==
    /\ pc = "player_bets"
    /\ game.p = 1
    /\ IF BetFails(player[1].betting_strat)
       THEN Raise
       ELSE /\ \E bet \in place_bet(player[1].betting_strat, player[1].bankroll) :
                  player' = [player EXCEPT ![1].curr_bet = bet]
            /\ random' = bet_placed(random, player[1].betting_strat)
            /\ game' = [game EXCEPT !.p = 2]
            /\ UNCHANGED <<session, dealer, pc>>

NextBetting == Bet

BettingSpec == InitBetting /\ [][NextBetting]_vars

(***************************************************************************)
(* Properties                                                              *)
(***************************************************************************)
RECURSIVE SumBankroll(_)
SumBankroll(n) == IF n = 0 THEN 0 ELSE player[n].bankroll + SumBankroll(n - 1)

TotalBankroll == dealer.bankroll + SumBankroll(Len(player))

InitialTotal == DealerBankroll + Len(player) * InitialBankroll

\* The player the pending RESOLVE targets.
Target == game.players[dealer_decision[2]]

\* The outcome of a resolution as the settlement rule states it.
DealerWins(t) ==
    \/ (~dealer.bust /\ hand_value(dealer.hand) > hand_value(player[t].hand))
    \/ (player[t].bust /\ ~dealer.bust)

PlayerWins(t) ==
    \/ (~player[t].bust /\ hand_value(player[t].hand) > hand_value(dealer.hand))
    \/ (dealer.bust /\ ~player[t].bust)

\* Player p of the current round has been resolved by the dealer.
Resolved(p) ==
    /\ pc \in {"dealer_turn", "clear"}
    /\ p \in Range(game.players)
    /\ player[p].hand.state = "OPEN"
    /\ player[p].history # <<>>
    /\ Last(player[p].history).win # None

\* C1: every Resolve is zero-sum (the dealer's bankroll changes by the negation
\* of the change of the target's bankroll, nobody else's bankroll changes), and
\* the sum of all bankrolls, eliminated players included, never changes.
C1_ZeroSum ==
    /\ [][DealerResolve =>
            /\ dealer'.bankroll - dealer.bankroll
                  = -(player'[Target].bankroll - player[Target].bankroll)
            /\ \A q \in DOMAIN player \ {Target} : player'[q].bankroll = player[q].bankroll]_vars
    /\ [](TotalBankroll = InitialTotal)

\* A resolution that moved money has happened.
C1_Witness == \E p \in DOMAIN player : Resolved(p) /\ Last(player[p].history).profit # 0

\* C2: Resolve pays the dealer payout_multiplier(dealer hand) x bet when the
\* dealer wins, else pays the player payout_multiplier(player hand) x bet when
\* the player wins, else (push) moves nothing.
C2_ResolveOutcome ==
    [][DealerResolve =>
         LET t == Target
             bet == player[t].curr_bet
         IN  IF DealerWins(t)
             THEN /\ dealer'.bankroll = dealer.bankroll + payout_multiplier(dealer.hand) * bet
                  /\ player'[t].bankroll = player[t].bankroll - payout_multiplier(dealer.hand) * bet
             ELSE IF PlayerWins(t)
             THEN /\ dealer'.bankroll = dealer.bankroll - payout_multiplier(player[t].hand) * bet
                  /\ player'[t].bankroll = player[t].bankroll + payout_multiplier(player[t].hand) * bet
             ELSE /\ dealer'.bankroll = dealer.bankroll
                  /\ player'[t].bankroll = player[t].bankroll]_vars

\* A bust player has been resolved against a bust dealer (a push).
C2_Witness ==
    \E p \in DOMAIN player :
        Resolved(p) /\ player[p].bust /\ dealer.bust /\ Last(player[p].history).profit = 0

\* C3: the History entry a Resolve appends records Win exactly when the player
\* won and Lose exactly when the dealer won (so neither on a push), and its
\* profit is positive only if the player won.
C3_HistoryOutcome ==
    [][DealerResolve =>
         LET t == Target
             e == Last(player'[t].history)
         IN  /\ (e.win = True) <=> PlayerWins(t)
             /\ (e.win = False) <=> DealerWins(t)
             /\ (e.profit > 0) => PlayerWins(t)]_vars

\* C4: the dealer's History entry of a round counts the resolutions of that
\* round only: wins + losses + draws = players resolved in the round.
C4_PerRoundTallies ==
    pc = "clear" =>
        LET e == Last(dealer.history)
        IN  e.round_wins + e.round_losses + e.round_draws
               = Cardinality({p \in DOMAIN player : Resolved(p)})

\* C5: after the r-th round every player of that round's roster and the dealer
\* have exactly r History entries (one per round played), and a step never adds
\* an entry to a player that is off the roster.
C5_OneEntryPerRound ==
    /\ [](pc = "played" =>
            /\ \A p \in Range(game.players) :
                  Len(player[p].history) = session.games_played + 1
            /\ Len(dealer.history) = session.games_played + 1)
    /\ [](pc \in {"simulate", "done"} =>
            /\ \A p \in Range(session.players) :
                  Len(player[p].history) = session.games_played
            /\ Len(dealer.history) = session.games_played)
    /\ [][\A p \in DOMAIN player :
            p \notin Range(session.players) => player'[p].history = player[p].history]_vars

\* A second round has been completed in which a player ran.
C5_Witness ==
    /\ pc = "played"
    /\ session.games_played = 1
    /\ \E p \in Range(game.players) : Last(player[p].history).win = None

\* What the History of a participant shows: every entry with the cards of the
\* hand it refers to.
PlayerHistoryView(p) ==
    [k \in DOMAIN player[p].history |->
        <<player[p].history[k], deref(player[p].history[k].hand).cards>>]

DealerHistoryView ==
    [k \in DOMAIN dealer.history |->
        <<dealer.history[k], deref(dealer.history[k].hand).cards>>]

\* C6: an appended History entry never changes: it keeps the cards and the
\* other fields it recorded.
C6_HistoryKeepsHand ==
    [][/\ \A p \in DOMAIN player : \A k \in DOMAIN player[p].history :
             PlayerHistoryView(p)'[k] = PlayerHistoryView(p)[k]
       /\ \A k \in DOMAIN dealer.history :
             DealerHistoryView'[k] = DealerHistoryView[k]]_vars

\* C7: after a round a roster player stays exactly when its bankroll is > 0;
\* a player off the roster never returns and nothing about it changes.
C7_EliminationPermanent ==
    [][/\ \A p \in DOMAIN player :
             p \notin Range(session.players) =>
                 /\ p \notin Range(session'.players)
                 /\ player'[p] = player[p]
                 /\ PlayerHistoryView(p)' = PlayerHistoryView(p)
       /\ SessionAfterGame =>
             \A p \in Range(session.players) :
                 (p \in Range(session'.players)) <=> (player[p].bankroll > 0)
       /\ ~SessionAfterGame => session'.players = session.players]_vars

\* A later round is being settled while some player is eliminated.
C7_Witness ==
    /\ pc = "dealer_turn"
    /\ game.players # <<>>
    /\ \E p \in DOMAIN player : p \notin Range(session.players) /\ player[p].bankroll <= 0

\* The rounds after which the dealer's bankroll was negative.
BankruptRounds == {k \in DOMAIN dealer.history : dealer.history[k].new_bankroll < 0}

\* C8: simulate() ends with games_played = k when round k is the first after
\* which the dealer's bankroll is negative, and with games_played = no_games when
\* there is no such round.
C8_DealerBankruptcy ==
    pc = "done" =>
        /\ Len(dealer.history) = session.games_played
        /\ IF BankruptRounds # {}
           THEN \A k \in BankruptRounds : k = session.games_played
           ELSE session.games_played = session.no_games

\* The session ended on the dealer's bankruptcy with rounds left to play.
C8_Witness ==
    /\ pc = "done"
    /\ session.games_played < session.no_games
    /\ dealer.bankroll < 0

HasAce(cards) == \E k \in DOMAIN cards : cards[k].value = "A"

\* C9 as stated: every draw leaves the hand with more cards and with a value
\* that is not smaller.
C9_HitMonotone ==
    [][/\ \A p \in DOMAIN player :
             Len(player'[p].hand.cards) > Len(player[p].hand.cards) =>
                 hand_value(player'[p].hand) >= hand_value(player[p].hand)
       /\ Len(dealer'.hand.cards) > Len(dealer.hand.cards) =>
             hand_value(dealer'.hand) >= hand_value(dealer.hand)
       /\ (PlayerHit /\ pc' # "raised") =>
             Len(player'[game.players[game.p]].hand.cards)
                > Len(player[game.players[game.p]].hand.cards)
       /\ (DealerHit /\ pc' # "raised") =>
             Len(dealer'.hand.cards) > Len(dealer.hand.cards)]_vars

\* A draw of `old` into `new` does not lower the value, unless it is the fourth
\* card of a hand that holds an Ace.
DrawKeepsValue(old, new) ==
    \/ hand_value(new) >= hand_value(old)
    \/ (Len(new.cards) = 4 /\ HasAce(old.cards))

\* C9 amended: every Hit adds exactly one card, and the value does not drop
\* except on the fourth card of a hand that already holds an Ace.
C9_HitMonotoneButAce ==
    [][/\ \A p \in DOMAIN player :
             Len(player'[p].hand.cards) > Len(player[p].hand.cards) =>
                 /\ Len(player'[p].hand.cards) = Len(player[p].hand.cards) + 1
                 /\ DrawKeepsValue(player[p].hand, player'[p].hand)
       /\ Len(dealer'.hand.cards) > Len(dealer.hand.cards) =>
             /\ Len(dealer'.hand.cards) = Len(dealer.hand.cards) + 1
             /\ DrawKeepsValue(dealer.hand, dealer'.hand)
       /\ (PlayerHit /\ pc' # "raised") =>
             Len(player'[game.players[game.p]].hand.cards)
                > Len(player[game.players[game.p]].hand.cards)
       /\ (DealerHit /\ pc' # "raised") =>
             Len(dealer'.hand.cards) > Len(dealer.hand.cards)]_vars

\* A hand dealt an Ace has been hit to five cards or more.
C9_Witness ==
    \E hand \in {dealer.hand} \cup {player[p].hand : p \in DOMAIN player} :
        /\ Len(hand.cards) >= 4
        /\ HasAce(SubSeq(hand.cards, 1, 3))

\* C10: a bet that has been placed does not exceed the player's bankroll.
C10_BetWithinBankroll ==
    \A k \in DOMAIN game.players :
        (\/ (pc = "player_bets" /\ k < game.p)
         \/ pc \in {"deal_hands", "player_turn"})
            => player[game.players[k]].curr_bet <= player[game.players[k]].bankroll

\* A bet of the random-range strategy has been clamped to a bankroll below the
\* configured range.
C10_Witness ==
    /\ pc = "player_bets" /\ game.p = 2
    /\ \E p \in Range(game.players) :
          /\ player[p].betting_strat.kind = "Random"
          /\ 0 < player[p].bankroll
          /\ player[p].bankroll < player[p].betting_strat.a
          /\ player[p].curr_bet = player[p].bankroll

\* A round is in progress (from Game.play to the end of Game._clear's turn).
InRound == pc \in {"play", "player_bets", "deal_hands", "player_turn", "dealer_turn", "clear"}

\* C11: no round is entered with an empty roster: a session without active
\* players does not bet, deal or play.
C11_NoEmptyRound == InRound => game.players # <<>>

\* The cards of every participant's hand and of the deck, one after the other.
RECURSIVE HandCards(_)
HandCards(n) == IF n = 0 THEN <<>> ELSE HandCards(n - 1) \o player[n].hand.cards

CardsInPlay == game.deck \o dealer.hand.cards \o HandCards(Len(player))

\* The 52 (rank, suit) pairs.
AllCards == {Card(v, s) : v \in Range(Value), s \in Range(Suit)}

\* C13: from the construction of a round's deck to its Reset, the deck and the
\* hands are disjoint and hold exactly the 52 distinct cards, so the deck holds
\* 52 less the number of cards drawn.
C13_CardsConserved ==
    (InRound \/ pc = "raised") =>
        /\ Cardinality(AllCards) = 52
        /\ Len(CardsInPlay) = 52
        /\ Range(CardsInPlay) = AllCards
        /\ Len(game.deck) = 52 - (Len(dealer.hand.cards) + Len(HandCards(Len(player))))
        /\ (pc = "play" => Len(game.deck) = 52)

\* Cards have been dealt and drawn: some hand holds four cards.
C13_Witness ==
    /\ pc = "dealer_turn"
    /\ Len(game.deck) < 52 - 2 * (Len(game.players) + 1)
    /\ \E p \in Range(game.players) : Len(player[p].hand.cards) >= 4

\* The next step of the round draws a card.
DrawPending ==
    \/ pc = "deal_hands"
    \/ /\ pc = "player_turn"
       /\ game.p <= Len(game.players)
       /\ RegularPlayerStrategy(player[game.players[game.p]].hand) = "HIT"
    \/ /\ pc = "dealer_turn"
       /\ any_closed
       /\ dealer_decision[1] = "HIT"

\* C12: a draw from the empty deck fails: no card is returned, the deck stays
\* empty and no hand (nor anything else) changes, and the failure ends the
\* round and the session: nothing happens after it.
C12_EmptyDeckFatal ==
    [][/\ pc # "raised"
       /\ (DrawPending /\ game.deck = <<>>) =>
             /\ pc' = "raised"
             /\ game' = game /\ player' = player /\ dealer' = dealer /\ session' = session
       /\ pc' = "raised" => (DrawPending /\ game.deck = <<>>)]_vars

\* A draw has failed on the empty deck.
C12_Witness == pc = "raised" /\ game.deck = <<>> /\ session.games_played < session.no_games

TheHand == player[1].hand

PairRanks == {"8", "9", "10", "J", "Q", "K"}

\* C14: a 2-card hand not valued 21 pays 2 when its two cards have the same
\* rank and that rank is 8, 9, 10, J, Q or K, and pays 1 otherwise.
C14_PairBonus ==
    (pc = "ruleset" /\ Len(TheHand.cards) = 2 /\ hand_value(TheHand) # 21) =>
        payout_multiplier(TheHand) =
            IF /\ TheHand.cards[1].value = TheHand.cards[2].value
               /\ TheHand.cards[1].value \in PairRanks
            THEN 2 ELSE 1

TenValued == {"10", "J", "Q", "K"}

\* C15: two Aces are valued 22, no 2-card hand pays 3, the hands that pay 3
\* are exactly the 5-card hands valued 21, and a 2-card hand valued 21 is an
\* Ace with a ten-valued card and pays 2.
C15_TwoAcesNeverTriple ==
    pc = "ruleset" =>
        LET n == Len(TheHand.cards)
            ranks == {TheHand.cards[k].value : k \in 1..n}
        IN  /\ (n = 2 /\ ranks = {"A"}) => hand_value(TheHand) = 22
            /\ n = 2 => payout_multiplier(TheHand) # 3
            /\ payout_multiplier(TheHand) = 3 <=> (n = 5 /\ hand_value(TheHand) = 21)
            /\ (n = 2 /\ hand_value(TheHand) = 21) =>
                   /\ "A" \in ranks
                   /\ ranks \cap TenValued # {}
                   /\ payout_multiplier(TheHand) = 2

\* Two Aces have been dealt: 22, paid at 1.
C15_Witness ==
    /\ pc = "ruleset"
    /\ Len(TheHand.cards) = 2
    /\ TheHand.cards[1].value = "A" /\ TheHand.cards[2].value = "A"
    /\ hand_value(TheHand) = 22
    /\ payout_multiplier(TheHand) = 1

\* The phases of a round, in the order of Game.play.
PhaseRank == [play |-> 0, player_bets |-> 1, deal_hands |-> 2, player_turn |-> 3,
              dealer_turn |-> 4, clear |-> 5]

\* The hand of the k-th player of the round's roster.
RosterHand(k) == player[game.players[k]].hand

NoCardDealt ==
    /\ dealer.hand.cards = <<>>
    /\ \A k \in DOMAIN game.players : RosterHand(k).cards = <<>>

\* The k-th player's turn is over: its strategy asks for no further card.
TurnEnded(k) == RegularPlayerStrategy(RosterHand(k)) \in {"STAND", "RUN"}

PhaseOrder ==
    /\ (InRound /\ InRound') => PhaseRank[pc'] \in {PhaseRank[pc], PhaseRank[pc] + 1}
    /\ (~InRound /\ InRound') => (pc = "simulate" /\ pc' = "play")
    /\ (InRound /\ ~InRound') => (pc' = "raised" \/ (pc = "clear" /\ pc' = "played"))

BetsBeforeCards ==
    (\E id \in DOMAIN player : player'[id].curr_bet # player[id].curr_bet) =>
        /\ pc = "player_bets"
        /\ NoCardDealt
        /\ player'[game.players[game.p]].curr_bet # player[game.players[game.p]].curr_bet
        /\ \A id \in DOMAIN player :
              id # game.players[game.p] => player'[id] = player[id]

PlayersInTurn ==
    (pc = "player_turn" /\ game.p <= Len(game.players)) =>
        /\ Len(dealer.hand.cards) = 2 /\ dealer' = dealer
        /\ \A k \in DOMAIN game.players :
              /\ Len(RosterHand(k).cards) >= 2
              /\ k < game.p => TurnEnded(k)
              /\ k > game.p => Len(RosterHand(k).cards) = 2 /\ RosterHand(k).state = "CLOSED"
              /\ k # game.p => player'[game.players[k]] = player[game.players[k]]
        /\ game'.p \in {game.p, game.p + 1}
        /\ game'.p = game.p + 1 <=> (TurnEnded(game.p) /\ pc' # "raised")

DealerAfterPlayers ==
    /\ pc = "dealer_turn" =>
          \A k \in DOMAIN game.players :
              /\ TurnEnded(k)
              /\ player'[game.players[k]].hand.cards = RosterHand(k).cards
    /\ ( \/ Len(dealer.hand.cards) >= 2 /\ dealer'.hand.cards # dealer.hand.cards
                                        /\ dealer'.hand.cards # <<>>
         \/ dealer'.bankroll # dealer.bankroll
         \/ \E id \in DOMAIN player :
                 /\ player'[id].bankroll # player[id].bankroll ) => pc = "dealer_turn"

\* C16: the phases of a round follow one another in the order Betting,
\* Dealing, PlayerTurns, DealerTurn, Reset, none revisited; a bet is placed
\* only while no card is dealt; during the player turns everybody holds at
\* least two cards, the players before the current one have ended their turn,
\* those after it still hold their two dealt cards and only the current player
\* changes; the dealer hits and resolves only after every player's turn ended.
C16_PhasesInOrder ==
    [][PhaseOrder /\ BetsBeforeCards /\ PlayersInTurn /\ DealerAfterPlayers]_vars

\* The dealer has hit and resolved the first player, who had hit, while the
\* second player still waits.
C16_Witness ==
    /\ pc = "dealer_turn"
    /\ Len(game.players) = 2
    /\ Len(RosterHand(1).cards) >= 3 /\ RosterHand(1).state = "OPEN"
    /\ RosterHand(2).state = "CLOSED"
    /\ Len(dealer.hand.cards) >= 3

\* The k-th player of the roster left the round by a Run.
Ran(k) ==
    LET q == player[game.players[k]]
    IN  /\ q.hand.state = "OPEN"
        /\ q.history # <<>>
        /\ Last(q.history).win = None

\* This step resolves the k-th player of the roster.
ResolveStep(k) ==
    /\ pc = "dealer_turn"
    /\ player'[game.players[k]] # player[game.players[k]]

DealerOnlyOnClosed ==
    pc = "dealer_turn" =>
        /\ any_closed => dealer_decision # None
        /\ ~any_closed =>
              /\ pc' = "clear"
              /\ dealer'.hand = dealer.hand /\ dealer'.bankroll = dealer.bankroll
              /\ player' = player
        /\ pc' = "clear" => \A k \in DOMAIN game.players : RosterHand(k).state = "OPEN"

ResolveClosedAscending ==
    \A k \in DOMAIN game.players :
        ResolveStep(k) =>
            /\ RosterHand(k).state = "CLOSED"
            /\ player'[game.players[k]].hand.state = "OPEN"
            /\ Len(player'[game.players[k]].history) = Len(player[game.players[k]].history) + 1
            /\ Last(player'[game.players[k]].history).win # None
            /\ \A j \in DOMAIN game.players :
                  /\ j < k => RosterHand(j).state = "OPEN"
                  /\ j > k => (RosterHand(j).state = "CLOSED" \/ Ran(j))
                  /\ j # k => player'[game.players[j]] = player[game.players[j]]
            /\ hand_value(dealer.hand) >= 16
            /\ dealer'.hand = dealer.hand

HitsBeforeResolves ==
    (pc = "dealer_turn" /\ dealer'.hand.cards # dealer.hand.cards) =>
        /\ hand_value(dealer.hand) < 16
        /\ player' = player
        /\ \A k \in DOMAIN game.players : RosterHand(k).state = "OPEN" => Ran(k)

AllOpenAtReset ==
    pc = "clear" =>
        \A k \in DOMAIN game.players :
            /\ RosterHand(k).state = "OPEN"
            /\ ~Ran(k) => Last(player[game.players[k]].history).win \in {True, False}

\* C17: the dealer acts only while some roster hand is Closed and its turn
\* ends only when all are Open; a Resolve takes a Closed hand, the lowest
\* Closed index, opens it and records one result for it, so a player that did
\* not Run is resolved exactly once and an Open hand never; the dealer's hits
\* all come before the first Resolve.
C17_DealerTurn ==
    [][DealerOnlyOnClosed /\ ResolveClosedAscending /\ HitsBeforeResolves
       /\ AllOpenAtReset]_vars

\* At the end of a dealer turn: one player ran, the other was resolved.
C17_Witness ==
    /\ pc = "clear"
    /\ Len(game.players) = 2
    /\ \E k \in 1..2 : Ran(k)
    /\ \E k \in 1..2 : ~Ran(k) /\ Last(player[game.players[k]].history).win \in {True, False}

\* This step is a Run of the current player.
RunStep ==
    /\ pc = "player_turn"
    /\ game.p <= Len(game.players)
    /\ RegularPlayerStrategy(RosterHand(game.p)) = "RUN"

RunEffect ==
    RunStep =>
        LET id == game.players[game.p]
        IN  /\ player'[id].hand = [player[id].hand EXCEPT !.state = "OPEN"]
            /\ Len(player'[id].history) = Len(player[id].history) + 1
            /\ SubSeq(player'[id].history, 1, Len(player[id].history)) = player[id].history
            /\ Last(player'[id].history).profit = 0
            /\ Last(player'[id].history).win = None
            /\ Last(player'[id].history).new_bankroll = player[id].bankroll
            /\ player'[id].bankroll = player[id].bankroll
            /\ player'[id].curr_bet = player[id].curr_bet
            /\ dealer' = dealer
            /\ game'.deck = game.deck
            /\ \A other \in DOMAIN player : other # id => player'[other] = player[other]

RunUntilReset ==
    \A k \in DOMAIN game.players :
        (InRound /\ Ran(k)) =>
            /\ player'[game.players[k]].bankroll = player[game.players[k]].bankroll
            /\ player'[game.players[k]].history = player[game.players[k]].history
            /\ pc # "clear" => player'[game.players[k]] = player[game.players[k]]
            /\ pc = "dealer_turn" /\ any_closed /\ dealer_decision[1] = "RESOLVE"
                  => dealer_decision[2] # k

\* C18: a Run opens the player's hand and appends one history entry of profit
\* 0, and changes nothing else: not the player's bankroll, not the dealer, not
\* the deck, not another player; until the round's reset the player's bankroll
\* and history stay as they are and the dealer does not resolve the player.
C18_RunZeroEffect == [][RunEffect /\ RunUntilReset]_vars

\* The dealer has resolved a player of a round in which another player ran.
C18_Witness ==
    /\ pc = "dealer_turn"
    /\ \E k \in DOMAIN game.players : Ran(k)
    /\ \E j \in DOMAIN game.players :
          /\ RosterHand(j).state = "OPEN"
          /\ Last(player[game.players[j]].history).win # None

\* C19: every round that is started reaches its reset, and simulate() returns.
C19_RoundReachesReset ==
    /\ (pc = "play") ~> (pc = "played")
    /\ <>(pc = "done")

\* C19, amended: every round that is started reaches its reset unless a draw
\* fails on the empty deck, and simulate() ends, by returning or by the failed
\* draw.
C19_RoundEnds ==
    /\ (pc = "play") ~> (pc \in {"played", "raised"})
    /\ <>(pc \in {"done", "raised"})

\* A second round has reached its reset after a first one eliminated players.
C19_Witness ==
    /\ pc = "played"
    /\ session.i = 1
    /\ Len(game.players) < TablePlayers
    /\ \A k \in DOMAIN game.players : RosterHand(k).cards = <<>>

\* C20: no hand ever holds more than five cards.
C20_FiveCardCeiling ==
    /\ Len(dealer.hand.cards) <= 5
    /\ \A id \in DOMAIN player : Len(player[id].hand.cards) <= 5

\* The bust flag of a participant says what its hand says.
BustAgrees(who) == who.bust = (hand_value(who.hand) > 21)

\* C21: at every Resolve the dealer's and the target player's bust flag is set
\* exactly when the hand is valued over 21, and the side whose hand is valued
\* over 21 does not win the resolution.
C21_BustAgreesAtResolve ==
    [][\A k \in DOMAIN game.players :
          ResolveStep(k) =>
              LET t == player[game.players[k]]
              IN  /\ BustAgrees(dealer)
                  /\ BustAgrees(t)
                  /\ hand_value(t.hand) > 21 => player'[game.players[k]].bankroll <= t.bankroll
                  /\ hand_value(dealer.hand) > 21 => dealer'.bankroll <= dealer.bankroll]_vars

====
